---- MODULE Spec2Model ----
(***************************************************************************)
(* Conversation orchestration and tool-execution pipeline of the CEA /     *)
(* AquaHub / WaterHub agent: ticket folio generation and ticket creation   *)
(* against the PostgreSQL ticket store, the in-memory conversation store   *)
(* with its TTL sweep, the per-turn workflow, and the tools' failure       *)
(* handling.                                                               *)
(***************************************************************************)
EXTENDS Integers, Sequences, FiniteSets, TLC

\* ------------------------------------------------------------------------
\* Bounds of the model
\* ------------------------------------------------------------------------
NumCallers == 2
NumTurns == 2

\* Chat requests the server answers with an error, at most.
MaxRequests == 2

\* Calls of the exported folio generator.
NumFolioCalls == 2

\* ------------------------------------------------------------------------
\* Strings as sequences of one-character strings
\* ------------------------------------------------------------------------
DigitChars == <<"0", "1", "2", "3", "4", "5", "6", "7", "8", "9">>

DigitSet == {DigitChars[i] : i \in 1..10}

UpperChars == <<"A", "B", "C", "D", "E", "F", "G", "H", "I", "J", "K", "L", "M",
                "N", "O", "P", "Q", "R", "S", "T", "U", "V", "W", "X", "Y", "Z">>

UpperCase == {UpperChars[i] : i \in 1..26}

\* Collation rank of the characters a folio is made of ('-' < digits < letters).
CharRank(c) ==
    IF c = "-" THEN 0
    ELSE IF c \in DigitSet THEN CHOOSE i \in 1..10 : DigitChars[i] = c
    ELSE 10 + (CHOOSE k \in 1..26 : UpperChars[k] = c)

\* String(n) / n.toString() for a non-negative integer.
RECURSIVE NumStr(_)
NumStr(n) ==
    IF n < 10 THEN <<DigitChars[n + 1]>>
    ELSE NumStr(n \div 10) \o <<DigitChars[(n % 10) + 1]>>

\* s.padStart(len, ch)
RECURSIVE padStart(_, _, _)
padStart(s, len, ch) ==
    IF Len(s) >= len THEN s ELSE padStart(<<ch>> \o s, len, ch)

\* s.slice(-k)
sliceLast(s, k) ==
    IF Len(s) <= k THEN s ELSE SubSeq(s, Len(s) - k + 1, Len(s))

\* parseInt of a string of digits.
RECURSIVE parseInt(_)
parseInt(s) ==
    IF Len(s) = 0 THEN 0
    ELSE 10 * parseInt(SubSeq(s, 1, Len(s) - 1))
         + ((CHOOSE i \in 1..10 : DigitChars[i] = s[Len(s)]) - 1)

\* Lexicographic comparison a < b (ORDER BY folio).
RECURSIVE StrLess(_, _)
StrLess(a, b) ==
    IF Len(b) = 0 THEN FALSE
    ELSE IF Len(a) = 0 THEN TRUE
    ELSE IF a[1] = b[1] THEN StrLess(Tail(a), Tail(b))
    ELSE CharRank(a[1]) < CharRank(b[1])

startsWith(s, prefix) ==
    /\ Len(s) >= Len(prefix)
    /\ SubSeq(s, 1, Len(prefix)) = prefix

\* ------------------------------------------------------------------------
\* State
\* ------------------------------------------------------------------------
VARIABLES
    clock,          \* wall-clock time in ms since the model's origin
    tickets,        \* rows of the tickets table, in insertion order
    enforceUnique,  \* whether the tickets table has a unique index on folio
    call,           \* one createTicketDirect invocation per caller
    variant,        \* which deployment's agent module is loaded
    heap,           \* the ConversationEntry objects ever allocated
    conversationStore,  \* the Map: conversation id -> entry (index in heap, 0 = none)
    appended,       \* per entry, every item ever pushed to its history, in order
    lastSweep,      \* time of the last run of the cleanup interval
    turn,           \* one runWorkflow invocation per turn
    tool,           \* the tool invocation in progress, and how many were made
    parse,          \* one application of an upstream parser to a payload
    chat,           \* the chat requests the server handled
    folioCalls,     \* the calls of generateTicketFolio made from outside the module
    agentRun        \* one call of runAgentWithApproval

ticketVars == <<tickets, enforceUnique, call>>

convVars == <<variant, heap, conversationStore, appended, lastSweep, turn>>

toolVars == <<tool>>

parseVars == <<parse>>

chatVars == <<chat>>

exportVars == <<folioCalls>>

runVars == <<agentRun>>

vars == <<clock, tickets, enforceUnique, call,
          variant, heap, conversationStore, appended, lastSweep, turn, tool, parse, chat, folioCalls, agentRun>>

\* ------------------------------------------------------------------------
\* Time
\* ------------------------------------------------------------------------
DayMs == 24 * 60 * 60 * 1000

\* The instant clock = 0: local midnight of a business day, and the epoch
\* time of that instant in units of 10 seconds.
Origin == [year |-> 2026, month |-> 1, day |-> 6, epochTenSec |-> 176765760]

\* The instants the model observes: the origin, one millisecond later (same
\* second), the next second, ten seconds later, and the next day.
Instants == {0, 1, 1000, 10000, DayMs}

\* new Date(new Date().toLocaleString("en-US", {timeZone})): the locale string
\* carries no milliseconds, so the parsed Date is truncated to the second.
getMexicoDate(t) == t - (t % 1000)

\* now.getTime().toString()
getTimeString(now) ==
    NumStr(Origin.epochTenSec + (now \div 10000))
        \o padStart(NumStr(now % 10000), 4, "0")

\* year + month.padStart(2) + day.padStart(2)
dateStr(now) ==
    NumStr(Origin.year)
        \o padStart(NumStr(Origin.month), 2, "0")
        \o padStart(NumStr(Origin.day + (now \div DayMs)), 2, "0")

\* ------------------------------------------------------------------------
\* Ticket configuration tables
\* ------------------------------------------------------------------------
TicketType == {"fuga", "aclaraciones", "pagos", "lecturas", "revision_recibo",
               "recibo_digital", "urgente"}

TICKET_CODES ==
    [t \in TicketType |->
        CASE t = "fuga" -> <<"F", "U", "G">>
          [] t = "aclaraciones" -> <<"A", "C", "L">>
          [] t = "pagos" -> <<"P", "A", "G">>
          [] t = "lecturas" -> <<"L", "E", "C">>
          [] t = "revision_recibo" -> <<"R", "E", "V">>
          [] t = "recibo_digital" -> <<"D", "I", "G">>
          [] t = "urgente" -> <<"U", "R", "G">>]

PRIORITY_MAP(p) ==
    CASE p = "baja" -> "low"
      [] p = "media" -> "medium"
      [] p = "alta" -> "high"
      [] p = "urgente" -> "urgent"
      [] OTHER -> "medium"

\* ------------------------------------------------------------------------
\* Folio generation
\* ------------------------------------------------------------------------
folioPrefix(ticketType, now) == TICKET_CODES[ticketType] \o <<"-">> \o dateStr(now)

\* generateTicketFolio: the synchronous timestamp folio.
generateTicketFolio(ticketType, t) ==
    LET now == getMexicoDate(t)
        timestamp == sliceLast(getTimeString(now), 4)
    IN  folioPrefix(ticketType, now) \o <<"-">> \o timestamp

\* SELECT folio FROM tickets WHERE folio LIKE '<prefix>-%'
\* ORDER BY folio DESC LIMIT 1
pgLastFolio(rows, prefix) ==
    LET matching == {rows[i].folio : i \in
                        {j \in 1..Len(rows) : startsWith(rows[j].folio, prefix \o <<"-">>)}}
    IN  IF matching = {} THEN <<>>
        ELSE <<CHOOSE f \in matching : \A g \in matching : g = f \/ StrLess(g, f)>>

\* lastFolio.match(/-(\d{4})$/): the captured digits, or <<>> when no match.
matchSeq(folio) ==
    IF /\ Len(folio) >= 5
       /\ folio[Len(folio) - 4] = "-"
       /\ \A i \in (Len(folio) - 3)..Len(folio) : folio[i] \in DigitSet
    THEN <<SubSeq(folio, Len(folio) - 3, Len(folio))>>
    ELSE <<>>

nextNumber(result) ==
    IF Len(result) > 0 /\ Len(matchSeq(result[1])) > 0
    THEN parseInt(matchSeq(result[1])[1]) + 1
    ELSE 1

\* generateTicketFolioFromPG: t is the time the call started, queryOk whether
\* the lookup query succeeded, rows the table the query saw.
generateTicketFolioFromPG(ticketType, t, queryOk, rows) ==
    LET now == getMexicoDate(t)
        prefix == folioPrefix(ticketType, now)
    IN  IF queryOk
        THEN prefix \o <<"-">> \o padStart(NumStr(nextNumber(pgLastFolio(rows, prefix))), 4, "0")
        ELSE prefix \o <<"-">> \o sliceLast(getTimeString(now), 4)

\* ------------------------------------------------------------------------
\* createTicketDirect
\* ------------------------------------------------------------------------
Callers == 1..NumCallers

\* The (service_type, priority) pairs the callers pass: every caller asks for
\* the same category, the case in which folios can collide.
TicketInputs == {<<"urgente", "urgente">>}

LOCAL_WARNING == "Ticket creado localmente, sincronizacion pendiente"

NoResult == [kind |-> "none", success |-> FALSE, folio |-> <<>>, ticketId |-> 0,
             warning |-> ""]

IdleCall == [pc |-> "idle", type |-> "urgente", priority |-> "urgente", start |-> 0,
             folio |-> <<>>, lookupOk |-> TRUE, insert |-> "none", after |-> {},
             clash |-> FALSE, result |-> NoResult]

folios(rows) == {rows[i].folio : i \in 1..Len(rows)}

\* The row createTicketDirect inserts (status is always "open").
newTicketRow(rows, input, folio) ==
    [id |-> Len(rows) + 1, folio |-> folio, status |-> "open",
     priority |-> PRIORITY_MAP(input.priority), ticket_type |-> TICKET_CODES[input.type],
     resolution_notes |-> "", resolved_at |-> <<>>]

\* An INSERT into a table that accepts a folio it already holds.
pgInsertOutcome_noIndex(rows, unique, storeUp, folio) ==
    IF ~storeUp THEN "unreachable" ELSE "ok"

\* The INSERT ... RETURNING id, folio: "ok", or the reason it threw.
pgInsertOutcome(rows, unique, storeUp, folio) ==
    IF ~storeUp THEN "unreachable"
    ELSE IF unique /\ folio \in folios(rows) THEN "duplicate"
    ELSE "ok"

\* A catch block that reports the failure, as the other tools' do.
createTicketResult_reportsFailure(input, createdTicket, outcome, t) ==
    IF outcome = "ok"
    THEN [kind |-> "return", success |-> TRUE, folio |-> createdTicket.folio,
          ticketId |-> createdTicket.id, warning |-> ""]
    ELSE [kind |-> "return", success |-> FALSE, folio |-> <<>>,
          ticketId |-> 0, warning |-> ""]

\* What createTicketDirect returns: the inserted row's folio and id, or, from
\* its catch block, a local folio computed at time t with the warning.
createTicketResult(input, createdTicket, outcome, t) ==
    IF outcome = "ok"
    THEN [kind |-> "return", success |-> TRUE, folio |-> createdTicket.folio,
          ticketId |-> createdTicket.id, warning |-> ""]
    ELSE [kind |-> "return", success |-> TRUE,
          folio |-> generateTicketFolio(input.type, t),
          ticketId |-> 0, warning |-> LOCAL_WARNING]

\* createTicketDirect is entered: generateTicketFolioFromPG reads the clock
\* and issues the lookup query.
CallBegin(p, inp) ==
    /\ call[p].pc = "idle"
    /\ \A q \in 1..(p - 1) : call[q].pc # "idle"   \* callers are interchangeable
    /\ call' = [call EXCEPT ![p] = [@ EXCEPT !.pc = "lookup", !.type = inp[1],
                                             !.priority = inp[2], !.start = clock,
                                             !.after = {q \in Callers : call[q].pc = "done"}]]
    /\ UNCHANGED <<runVars, exportVars, chatVars, parseVars, toolVars, clock, tickets, enforceUnique, convVars>>

\* The lookup query completes (or fails) and the folio is built; the INSERT
\* is issued.
CallLookup(p, queryOk) ==
    /\ call[p].pc = "lookup"
    /\ call' = [call EXCEPT ![p] = [@ EXCEPT
                    !.pc = "insert",
                    !.lookupOk = queryOk,
                    !.folio = generateTicketFolioFromPG(call[p].type, call[p].start,
                                                        queryOk, tickets)]]
    /\ UNCHANGED <<runVars, exportVars, chatVars, parseVars, toolVars, clock, tickets, enforceUnique, convVars>>

\* The INSERT completes or throws; createTicketDirect returns.
CallInsert(p, storeUp) ==
    /\ call[p].pc = "insert"
    /\ LET c == call[p]
           outcome == pgInsertOutcome(tickets, enforceUnique, storeUp, c.folio)
           row == newTicketRow(tickets, c, c.folio)
           res == createTicketResult(c, row, outcome, clock)
       IN  /\ tickets' = IF outcome = "ok" THEN Append(tickets, row) ELSE tickets
           /\ call' = [call EXCEPT ![p] = [@ EXCEPT
                          !.pc = "done", !.insert = outcome, !.result = res,
                          !.clash = (res.folio \in folios(tickets))]]
    /\ UNCHANGED <<runVars, exportVars, chatVars, parseVars, toolVars, clock, enforceUnique, convVars>>

\* Time passes.
Tick(t) ==
    /\ t > clock
    /\ clock' = t
    /\ UNCHANGED <<runVars, exportVars, chatVars, parseVars, toolVars, tickets, enforceUnique, call, convVars>>

\* ------------------------------------------------------------------------
\* Ticket store at start-up
\* ------------------------------------------------------------------------
\* Rows of other prefixes (another category today, the same category on the
\* previous day) are in every start-up store; SeedSeqs are the greatest
\* sequence numbers already stored for today's "urgente" prefix.
SeedSeqs == {999, 9999}

seedRow(id, code, day, n) ==
    [id |-> id,
     folio |-> code \o <<"-">> \o NumStr(Origin.year)
                 \o padStart(NumStr(Origin.month), 2, "0")
                 \o padStart(NumStr(day), 2, "0")
                 \o <<"-">> \o padStart(NumStr(n), 4, "0"),
     status |-> "open", priority |-> "medium", ticket_type |-> code,
     resolution_notes |-> "", resolved_at |-> <<>>]

OtherRows == <<seedRow(1, TICKET_CODES["fuga"], Origin.day, 5),
               seedRow(2, TICKET_CODES["urgente"], Origin.day - 1, 7)>>

SeedStores ==
    {OtherRows} \cup
    {Append(OtherRows, seedRow(3, TICKET_CODES["urgente"], Origin.day, n)) : n \in SeedSeqs}

\* ------------------------------------------------------------------------
\* Conversation store
\* ------------------------------------------------------------------------
TTL_MS == 3600000
SWEEP_INTERVAL_MS == 300000
HISTORY_CAP == 20

ConvIds == {"a", "b"}

Turns == 1..NumTurns

\* The instants the conversation model observes: the origin and the run of
\* the cleanup interval one TTL later (the runs in between find every entry
\* of the model younger than the TTL, or delete what this one would).
ConvInstants == {0, TTL_MS}

NoEntry == 0

\* A new entry that starts with a classification already set.
newEntry_classified(now) ==
    [history |-> <<>>, lastAccess |-> now, classification |-> "informacion",
     contractNumber |-> "", alcaldia |-> ""]

newEntry(now) ==
    [history |-> <<>>, lastAccess |-> now, classification |-> "",
     contractNumber |-> "", alcaldia |-> ""]

\* The cleanup interval is due at the current instant and has not run yet.
SweepDue == clock > 0 /\ clock % SWEEP_INTERVAL_MS = 0 /\ lastSweep < clock

\* A cleanup that already deletes an entry idle for exactly the TTL.
expired_atTTL(entry, now) == now - entry.lastAccess >= TTL_MS

\* An entry the cleanup deletes at time now.
expired(entry, now) == now - entry.lastAccess > TTL_MS

\* The setInterval callback: delete every entry idle for more than the TTL.
Sweep ==
    /\ SweepDue
    /\ conversationStore' =
          [id \in ConvIds |->
              IF conversationStore[id] # NoEntry
                 /\ expired(heap[conversationStore[id]], clock)
              THEN NoEntry ELSE conversationStore[id]]
    /\ lastSweep' = clock
    /\ UNCHANGED <<runVars, exportVars, chatVars, parseVars, toolVars, clock, ticketVars, variant, heap, appended, turn>>

\* Time passes, never past a run of the cleanup interval. The instants are
\* minutes apart and a turn lasts seconds: no turn is in flight across them.
TickConv(t) ==
    /\ t > clock
    /\ ~SweepDue
    /\ \A u \in Turns : turn[u].pc \in {"idle", "done"}
    /\ \A m \in ConvInstants : ~(clock < m /\ m < t)
    /\ clock' = t
    /\ UNCHANGED <<runVars, exportVars, chatVars, parseVars, toolVars, ticketVars, convVars>>

\* ------------------------------------------------------------------------
\* History items and agent runs
\* ------------------------------------------------------------------------
\* An item carries the turn that produced it and its position in that turn,
\* which makes every item distinct.
item(t, idx, type, role, name, text) ==
    [turn |-> t, idx |-> idx, type |-> type, role |-> role, name |-> name, text |-> text]

userMessage(t) == item(t, 0, "message", "user", "", <<"input_as_text">>)

assistantMessage(t, text) == item(t, 1, "message", "assistant", "", text)

\* s.slice(-k) of an array
lastItems(h, k) == IF Len(h) <= k THEN h ELSE SubSeq(h, Len(h) - k + 1, Len(h))

\* A limit that keeps the oldest items instead of the newest.
limitHistory_keepsOldest(h) ==
    IF Len(h) > HISTORY_CAP THEN SubSeq(h, 1, HISTORY_CAP) ELSE h

\* Limit history length (keep last 20 messages).
limitHistory(h) == IF Len(h) > HISTORY_CAP THEN lastItems(h, HISTORY_CAP) ELSE h

\* A Step 4 that stores the reply text in place of the run's items.
pushedItems_textOnly(t, newItems, output) ==
    <<userMessage(t)>> \o (IF output # <<>> THEN <<assistantMessage(t, output)>> ELSE <<>>)

\* A Step 4 that returns without writing the history.
pushedItems_none(t, newItems, output) == <<>>

\* What Step 4 pushes: the user message, then the run's items or, when there
\* are none and the output is not empty, one assistant message.
pushedItems(t, newItems, output) ==
    <<userMessage(t)>> \o
        (IF Len(newItems) > 0 THEN newItems
         ELSE IF output # <<>> THEN <<assistantMessage(t, output)>>
         ELSE <<>>)

\* Labels the classifier of each deployment can return.
Labels(v) ==
    IF v = "cea" THEN {"hablar_asesor", "pagos"} ELSE {"subir_voz", "informacion"}

\* Results of runner.run(classificationAgent, ...): no final output, or a
\* label with an optionally extracted slot.
ClassifierResults(v) ==
    {[ok |-> FALSE, classification |-> "", extracted |-> ""]} \cup
    {[ok |-> TRUE, classification |-> l, extracted |-> e] : l \in Labels(v), e \in {"", "c1", "c2"}}

\* The results the workflow model draws from: every label, and one label with
\* an extracted slot.
CommonClassifierResults(v) ==
    {[ok |-> FALSE, classification |-> "", extracted |-> ""]} \cup
    {[ok |-> TRUE, classification |-> l, extracted |-> ""] : l \in Labels(v)} \cup
    {[ok |-> TRUE, classification |-> l, extracted |-> "c1"] : l \in Labels(v) \ {"hablar_asesor", "subir_voz"}}

\* Results of runner.run(persona, ...): it throws, or returns a final output
\* and the new items of the run.
PersonaResults(t) ==
    {[throws |-> TRUE, finalOutput |-> <<>>, newItems |-> <<>>],
     [throws |-> FALSE, finalOutput |-> <<>>, newItems |-> <<>>],
     [throws |-> FALSE, finalOutput |-> <<"respuesta">>,
      newItems |-> <<item(t, 1, "message", "assistant", "", <<"respuesta">>)>>],
     [throws |-> FALSE, finalOutput |-> <<"respuesta">>,
      newItems |-> <<item(t, 1, "function_call", "", "get_deuda", <<>>),
                     item(t, 2, "function_call_result", "", "get_deuda", <<>>),
                     item(t, 3, "message", "assistant", "", <<"respuesta">>)>>],
     [throws |-> FALSE, finalOutput |-> <<>>,
      newItems |-> <<item(t, 1, "hosted_tool_call", "", "web_search", <<>>),
                     item(t, 2, "message", "assistant", "", <<"texto">>)>>]}

\* Names of the hosted_tool_call items, in order.
RECURSIVE extractToolsUsed(_)
extractToolsUsed(items) ==
    IF Len(items) = 0 THEN <<>>
    ELSE (IF items[1].type = "hosted_tool_call" /\ items[1].name # ""
          THEN <<items[1].name>> ELSE <<>>) \o extractToolsUsed(Tail(items))

\* A scan that stops at the last assistant item, with or without text.
RECURSIVE lastAssistantText_firstHit(_)
lastAssistantText_firstHit(items) ==
    IF Len(items) = 0 THEN <<>>
    ELSE IF items[Len(items)].role = "assistant"
         THEN items[Len(items)].text
         ELSE lastAssistantText_firstHit(SubSeq(items, 1, Len(items) - 1))

\* The text of the last assistant item that has text, scanning backward.
RECURSIVE lastAssistantText(_)
lastAssistantText(items) ==
    IF Len(items) = 0 THEN <<>>
    ELSE IF items[Len(items)].role = "assistant" /\ items[Len(items)].text # <<>>
         THEN items[Len(items)].text
         ELSE lastAssistantText(SubSeq(items, 1, Len(items) - 1))

\* runAgentWithApproval, for a run that did not throw.
runAgentWithApproval(result) ==
    [output |-> IF result.finalOutput # <<>> THEN result.finalOutput
                ELSE lastAssistantText(result.newItems),
     newItems |-> result.newItems,
     toolsUsed |-> extractToolsUsed(result.newItems)]

\* ------------------------------------------------------------------------
\* runWorkflow
\* ------------------------------------------------------------------------
ERROR_TEXT == <<"Lo siento, tuve un problema procesando tu mensaje">>

WATERHUB_ERROR_TEXT == <<"No pude procesar ese mensaje">>

WELCOME_MESSAGE == <<"Bienvenido a WaterHub">>

PENDING == <<"P", "E", "N", "D", "I", "N", "G">>

\* `He creado tu solicitud con el folio ${folio}. Te conectare ...`
advisorText(folio) ==
    <<"He creado tu solicitud con el folio">> \o folio \o <<"Te conectare con un asesor humano">>

NoOutputMessage == "Classification failed - no output"

NoOutput == [output_text |-> <<>>, classification |-> "", error |-> "", toolsUsed |-> <<>>]

IdleTurn == [pc |-> "idle", conv |-> "a", entry |-> NoEntry, workingHistory |-> <<>>,
             classification |-> "", extracted |-> "", ticket |-> NoResult, personaRuns |-> 0,
             ticketCalls |-> 0, pushed |-> <<>>, newItems |-> <<>>, agentOutput |-> <<>>, out |-> NoOutput]

\* A catch block that records the failed exchange in both modules.
errorHistory_records(v, t, h) ==
    h \o <<userMessage(t), assistantMessage(t, <<"error">>)>>

\* The catch block of runWorkflow: the fixed reply; the WaterHub module also
\* records the exchange in the history.
errorHistory(v, t, h) ==
    IF v = "waterhub"
    THEN h \o <<userMessage(t), assistantMessage(t, WATERHUB_ERROR_TEXT)>>
    ELSE h

errorOutput(v, message, toolsUsed) ==
    [output_text |-> IF v = "waterhub" THEN WATERHUB_ERROR_TEXT ELSE ERROR_TEXT,
     classification |-> "", error |-> message, toolsUsed |-> toolsUsed]

\* A slot assignment that also stores an empty extraction.
storeSlot_always(old, extracted) == extracted

\* if (extractedContract) conversation.contractNumber = extractedContract
storeSlot(old, extracted) == IF extracted # "" THEN extracted ELSE old

\* An access that refreshes every entry, not only the one asked for.
touch_all(h, existing, now) == [i \in 1..Len(h) |-> [h[i] EXCEPT !.lastAccess = now]]

\* existing.lastAccess = new Date()
touch(h, existing, now) == [h EXCEPT ![existing].lastAccess = now]

\* runWorkflow is entered: getConversation touches or creates the entry and
\* the working history is copied; the classifier is called.
enterWorkflow(t, id) ==
    /\ turn[t].pc = "idle"
    /\ \A u \in 1..(t - 1) : turn[u].pc # "idle"   \* turns are interchangeable
    /\ LET existing == conversationStore[id]
           e == IF existing # NoEntry THEN existing ELSE Len(heap) + 1
       IN  /\ heap' = IF existing # NoEntry
                      THEN touch(heap, existing, clock)
                      ELSE Append(heap, newEntry(clock))
           /\ appended' = IF existing # NoEntry THEN appended ELSE Append(appended, <<>>)
           /\ conversationStore' = [conversationStore EXCEPT ![id] = e]
           /\ turn' = [turn EXCEPT ![t] = [@ EXCEPT
                          !.pc = "classify", !.conv = id, !.entry = e,
                          !.workingHistory = heap'[e].history \o <<userMessage(t)>>]]

\* runWorkflow called by a caller other than the chat endpoint.
TurnStart(t, id) ==
    /\ enterWorkflow(t, id)
    /\ UNCHANGED <<runVars, exportVars, chatVars, parseVars, toolVars, clock, ticketVars, variant, lastSweep>>

\* The classifier returns. Without a final output the turn ends in the catch
\* block; otherwise the slot and classification are stored on the entry and
\* the turn goes to the advisor short-circuit or to the persona.
TurnClassified(t, cr) ==
    /\ turn[t].pc = "classify"
    /\ cr \in ClassifierResults(variant)
    /\ LET e == turn[t].entry
           h == errorHistory(variant, t, heap[e].history)
       IN  IF ~cr.ok
           THEN /\ heap' = [heap EXCEPT ![e].history = limitHistory(h)]
                /\ appended' = [appended EXCEPT ![e] =
                                   @ \o SubSeq(h, Len(heap[e].history) + 1, Len(h))]
                /\ turn' = [turn EXCEPT ![t] = [@ EXCEPT
                               !.pc = "done",
                               !.pushed = SubSeq(h, Len(heap[e].history) + 1, Len(h)),
                               !.out = errorOutput(variant, NoOutputMessage, <<>>)]]
           ELSE /\ heap' = [heap EXCEPT ![e] = [@ EXCEPT
                               !.contractNumber =
                                   IF variant = "cea" THEN storeSlot(@, cr.extracted) ELSE @,
                               !.alcaldia =
                                   IF variant = "waterhub" THEN storeSlot(@, cr.extracted) ELSE @,
                               !.classification = cr.classification]]
                /\ appended' = appended
                /\ turn' = [turn EXCEPT ![t] = [@ EXCEPT
                               !.pc = IF variant = "cea" /\ cr.classification = "hablar_asesor"
                                      THEN "ticket" ELSE "persona",
                               !.extracted = cr.extracted,
                               !.classification = cr.classification]]
    /\ UNCHANGED <<runVars, exportVars, chatVars, parseVars, toolVars, clock, ticketVars, variant, conversationStore, lastSweep>>


\* A write-back of the copy the turn read when it started, with its items.
storedAfter_snapshot(current, snapshot, pushed) == limitHistory(snapshot \o pushed)

\* conversation.history.push(...) and the limit: the items are appended to
\* the entry's history as it is now, whatever the turn read when it started.
storedAfter(current, snapshot, pushed) == limitHistory(current \o pushed)

\* Step 4 and the return of a turn that did not fail: push, limit, respond.
\* ticketResult and ran record what Step 2 or Step 3 did in this turn.
finishTurn(t, output, newItems, toolsUsed, ticketResult, ran) ==
    LET e == turn[t].entry
        pushed == pushedItems(t, newItems, output)
        snapshot == SubSeq(turn[t].workingHistory, 1, Len(turn[t].workingHistory) - 1)
    IN  /\ heap' = [heap EXCEPT ![e].history = storedAfter(@, snapshot, pushed)]
        /\ appended' = [appended EXCEPT ![e] = @ \o pushed]
        /\ turn' = [turn EXCEPT ![t] = [@ EXCEPT
                       !.pc = "done", !.pushed = pushed,
                       !.newItems = newItems,
                       !.ticket = ticketResult,
                       !.ticketCalls = @ + ran.ticket,
                       !.personaRuns = @ + ran.persona,
                       !.agentOutput = ran.output,
                       !.out = [output_text |-> output,
                                classification |-> turn[t].classification,
                                error |-> "", toolsUsed |-> toolsUsed]]]

\* The catch block after a persona run that threw.
failTurn(t, message) ==
    LET e == turn[t].entry
        h == errorHistory(variant, t, heap[e].history)
        pushed == SubSeq(h, Len(heap[e].history) + 1, Len(h))
    IN  /\ heap' = [heap EXCEPT ![e].history = limitHistory(h)]
        /\ appended' = [appended EXCEPT ![e] = @ \o pushed]
        /\ turn' = [turn EXCEPT ![t] = [@ EXCEPT
                       !.pc = "done", !.pushed = pushed,
                       !.personaRuns = @ + 1,
                       !.out = errorOutput(variant, message, <<>>)]]

\* The folio the advisor reply embeds: ticketResult.folio || "PENDING".
advisorFolio(ticketResult) ==
    IF ticketResult.folio # <<>> THEN ticketResult.folio ELSE PENDING

\* The hablar_asesor branch of the CEA workflow: the awaited
\* createTicketDirect completes (lookup and insert against the store as it is
\* now), then the canned reply is stored and returned.
TurnTicket(t, queryOk, storeUp) ==
    /\ turn[t].pc = "ticket"
    /\ LET input == [type |-> "urgente", priority |-> "urgente"]
           folio == generateTicketFolioFromPG(input.type, clock, queryOk, tickets)
           outcome == pgInsertOutcome(tickets, enforceUnique, storeUp, folio)
           row == newTicketRow(tickets, input, folio)
           res == createTicketResult(input, row, outcome, clock)
       IN  /\ tickets' = IF outcome = "ok" THEN Append(tickets, row) ELSE tickets
           /\ finishTurn(t, advisorText(advisorFolio(res)), <<>>, <<"create_ticket">>,
                         res, [ticket |-> 1, persona |-> 0, output |-> <<>>])
    /\ UNCHANGED <<runVars, exportVars, chatVars, parseVars, toolVars, clock, enforceUnique, call, variant, conversationStore, lastSweep>>

\* A reply that is always the text the persona produced.
replyText_persona(v, isFirstMessage, output) == output

\* finalOutput: the WaterHub module answers a conversation whose stored history
\* is empty with the welcome message; the CEA module has no such override.
replyText(v, isFirstMessage, output) ==
    IF v = "waterhub" /\ isFirstMessage THEN WELCOME_MESSAGE ELSE output

\* The persona run completes or throws. The WaterHub module replies with the
\* welcome message when the stored history is still empty.
TurnPersona(t, pr) ==
    /\ turn[t].pc = "persona"
    /\ pr \in PersonaResults(t)
    /\ LET agentResult == runAgentWithApproval(pr)
           isFirstMessage == Len(heap[turn[t].entry].history) = 0
           finalOutput == replyText(variant, isFirstMessage, agentResult.output)
       IN  IF pr.throws
           THEN failTurn(t, "persona")
           ELSE finishTurn(t, finalOutput, agentResult.newItems, agentResult.toolsUsed,
                           NoResult, [ticket |-> 0, persona |-> 1,
                                      output |-> agentResult.output])
    /\ UNCHANGED <<runVars, exportVars, chatVars, parseVars, toolVars, clock, ticketVars, variant, conversationStore, lastSweep>>

\* ------------------------------------------------------------------------
\* Tools of the CEA agents
\* ------------------------------------------------------------------------
MAX_RETRIES == 3
DELAY_MS == 1000

\* Tool invocations made in one behaviour.
NumToolCalls == 2

ReadTools == {"get_deuda", "get_consumo", "get_contract_details"}

\* What an upstream payload holds: a fault marker (<faultstring> or <error>),
\* the data fields the parser looks for.
Payloads == {[marker |-> m, fields |-> f] : m \in BOOLEAN, f \in BOOLEAN}

\* What one fetch attempt does: it throws (network error, timeout), or it
\* yields a response with a status and a payload.
AttemptOutcomes ==
    {[throws |-> TRUE, ok |-> FALSE, payload |-> [marker |-> FALSE, fields |-> FALSE]]} \cup
    {[throws |-> FALSE, ok |-> k, payload |-> b] : k \in BOOLEAN, b \in Payloads}

FETCH_ERROR == "fetch failed"

\* A text is a sequence of fragments; it is empty when every fragment is.
emptyText(parts) == \A i \in 1..Len(parts) : parts[i] = ""

NoToolResult ==
    [kind |-> "none", success |-> FALSE, error |-> <<>>, value |-> 0, items |-> 0,
     folio |-> <<>>, warning |-> "", rawResponse |-> FALSE, found |-> "absent",
     message |-> <<>>]

toolFailure(error) == [NoToolResult EXCEPT !.kind = "return", !.error = error]

\* parseDeudaResponse, parseConsumoResponse, parseContratoResponse: a payload
\* with a fault marker is a failure; any other payload is a success whose
\* missing fields default to 0 and to the empty list.
parseResponse(name, payload) ==
    IF payload.marker
    THEN [success |-> FALSE, error |-> <<"faultstring">>, value |-> 0, items |-> 0,
          rawResponse |-> name = "get_deuda"]
    ELSE [success |-> TRUE, error |-> <<>>,
          value |-> IF payload.fields THEN 150 ELSE 0,
          items |-> IF payload.fields /\ name # "get_contract_details" THEN 1 ELSE 0,
          rawResponse |-> FALSE]

\* The prefix each read tool puts before the message of a caught error.
errorPrefix(name) ==
    CASE name = "get_deuda" -> "No se pudo consultar el saldo: "
      [] name = "get_consumo" -> "No se pudo consultar el consumo: "
      [] OTHER -> "No se pudo consultar el contrato: "

\* What a read tool returns for the response fetchWithRetry returned.
readToolResult(name, response) ==
    LET parsed == parseResponse(name, response.payload)
    IN  IF ~parsed.success
        THEN toolFailure(parsed.error)
        ELSE [NoToolResult EXCEPT !.kind = "return", !.success = TRUE,
                                  !.value = parsed.value, !.items = parsed.items]

\* Arguments of update_ticket with nothing supplied.
NoArgs == [folio |-> <<>>, status |-> "", priority |-> "", notes |-> ""]

\* process.env as a tool reads it: whether a Postgres URL, whether the
\* Supabase URL and key, and whether the URL of the AquaHub API are set. With
\* no API URL set the requests go to the default base http://localhost:8000.
Envs == {[db |-> d, supabase |-> sb, api |-> a] :
            d \in BOOLEAN, sb \in BOOLEAN, a \in BOOLEAN}

NoEnv == [db |-> FALSE, supabase |-> FALSE, api |-> FALSE]

IdleTool ==
    [pc |-> "idle", name |-> "", attempt |-> 0, outcomes |-> <<>>, waits |-> <<>>,
     calls |-> 0, storeFailed |-> FALSE, backend |-> "", sent |-> 0,
     args |-> NoArgs, result |-> NoToolResult, env |-> NoEnv]

\* A wait that does not grow with the attempt.
retryDelay_fixed(attempt) == DELAY_MS

\* setTimeout(r, delayMs * attempt)
retryDelay(attempt) == DELAY_MS * attempt

\* A read tool's execute is entered and calls fetchWithRetry.
ToolInvoke(name) ==
    /\ tool.pc \in {"idle", "done"}
    /\ tool.calls < NumToolCalls
    /\ name \in ReadTools
    /\ tool' = [IdleTool EXCEPT !.pc = "fetch", !.name = name, !.attempt = 1,
                                !.calls = tool.calls + 1]
    /\ UNCHANGED <<runVars, exportVars, chatVars, parseVars, clock, ticketVars, convVars>>

\* One iteration of the loop of fetchWithRetry and, when the loop ends, the
\* rest of the read tool's execute.
FetchAttempt(outcome) ==
    /\ tool.pc = "fetch"
    /\ outcome \in AttemptOutcomes
    /\ LET attempt == tool.attempt
           seen == Append(tool.outcomes, outcome)
           retry == attempt < MAX_RETRIES /\ (outcome.throws \/ ~outcome.ok)
       IN  tool' =
             IF retry
             THEN [tool EXCEPT !.attempt = attempt + 1, !.outcomes = seen,
                               !.waits = Append(@, retryDelay(attempt))]
             ELSE [tool EXCEPT
                     !.pc = "done", !.outcomes = seen,
                     !.result =
                        IF outcome.throws
                        THEN toolFailure(<<errorPrefix(tool.name), FETCH_ERROR>>)
                        ELSE readToolResult(tool.name, outcome)]
    /\ UNCHANGED <<runVars, exportVars, chatVars, parseVars, clock, ticketVars, convVars>>

\* create_ticket: the tool returns what createTicketDirect returns.
ToolCreateTicket(input, queryOk, storeUp) ==
    /\ tool.pc \in {"idle", "done"}
    /\ tool.calls < NumToolCalls
    /\ LET ticketInput == [type |-> input[1], priority |-> input[2]]
           folio == generateTicketFolioFromPG(ticketInput.type, clock, queryOk, tickets)
           outcome == pgInsertOutcome(tickets, enforceUnique, storeUp, folio)
           row == newTicketRow(tickets, ticketInput, folio)
           res == createTicketResult(ticketInput, row, outcome, clock)
       IN  /\ tickets' = IF outcome = "ok" THEN Append(tickets, row) ELSE tickets
           /\ tool' = [IdleTool EXCEPT
                         !.pc = "done", !.name = "create_ticket",
                         !.calls = tool.calls + 1,
                         !.storeFailed = ~queryOk \/ ~storeUp,
                         !.backend = "postgres", !.sent = 1,
                         !.result = [NoToolResult EXCEPT
                                        !.kind = res.kind, !.success = res.success,
                                        !.folio = res.folio, !.warning = res.warning]]
    /\ UNCHANGED <<runVars, exportVars, chatVars, parseVars, clock, enforceUnique, call, convVars>>

STATUS_MAP(st) ==
    CASE st = "abierto" -> "open"
      [] st = "en_proceso" -> "in_progress"
      [] st = "escalado" -> "escalated"
      [] st = "esperando_cliente" -> "waiting_client"
      [] st = "esperando_interno" -> "waiting_internal"
      [] st = "resuelto" -> "resolved"
      [] st = "cerrado" -> "closed"
      [] st = "cancelado" -> "cancelled"
      [] OTHER -> st

\* Arguments of update_ticket: "" stands for a field that was not supplied.
UpdateInputs ==
    {[folio |-> f, status |-> st, priority |-> pr, notes |-> n] :
        f \in {OtherRows[1].folio, <<"X">>},
        st \in {"", "resuelto", "abierto"}, pr \in {"", "alta"}, n \in {"", "nota"}}

\* Messages of the error pgQuery throws; a refused connection is reported by
\* an AggregateError, whose message is the empty string.
PgErrors == {"", "connection terminated"}

\* An UPDATE that writes all three columns, supplied or not.
pgUpdate_allColumns(rows, input, now) ==
    [i \in 1..Len(rows) |->
        IF rows[i].folio # input.folio THEN rows[i]
        ELSE [rows[i] EXCEPT
                !.status = STATUS_MAP(input.status),
                !.priority = PRIORITY_MAP(input.priority),
                !.resolution_notes = input.notes,
                !.resolved_at = IF input.status = "resuelto" THEN <<now>> ELSE @]]

\* UPDATE tickets SET ... WHERE folio = $n
pgUpdate(rows, input, now) ==
    [i \in 1..Len(rows) |->
        IF rows[i].folio # input.folio THEN rows[i]
        ELSE [rows[i] EXCEPT
                !.status = IF input.status # "" THEN STATUS_MAP(input.status) ELSE @,
                !.priority = IF input.priority # "" THEN PRIORITY_MAP(input.priority) ELSE @,
                !.resolution_notes = IF input.notes # "" THEN input.notes ELSE @,
                !.resolved_at = IF input.status = "resuelto" THEN <<now>> ELSE @]]

\* `Ticket ${folio} actualizado correctamente`
updatedMessage(folio) == <<"Ticket ">> \o folio \o <<" actualizado correctamente">>

\* A result that reports a folio no row carries as a failure.
updateTicketResult_matched(rows, input) ==
    IF \E i \in 1..Len(rows) : rows[i].folio = input.folio
    THEN [NoToolResult EXCEPT !.kind = "return", !.success = TRUE,
                              !.folio = input.folio,
                              !.message = updatedMessage(input.folio)]
    ELSE toolFailure(<<"Ticket no encontrado">>)

\* What update_ticket returns after the UPDATE ran: the number of rows it
\* matched is not read.
updateTicketResult(rows, input) ==
    [NoToolResult EXCEPT !.kind = "return", !.success = TRUE,
                         !.folio = input.folio,
                         !.message = updatedMessage(input.folio)]

\* update_ticket: the query runs or throws; the tool returns.
ToolUpdateTicket(input, storeUp, message) ==
    /\ tool.pc \in {"idle", "done"}
    /\ tool.calls < NumToolCalls
    /\ message \in PgErrors
    /\ tickets' = IF storeUp THEN pgUpdate(tickets, input, clock) ELSE tickets
    /\ tool' = [IdleTool EXCEPT
                  !.pc = "done", !.name = "update_ticket",
                  !.calls = tool.calls + 1,
                  !.storeFailed = ~storeUp,
                  !.backend = "postgres", !.sent = 1, !.args = input,
                  !.result = IF storeUp
                             THEN updateTicketResult(tickets, input)
                             ELSE toolFailure(<<message>>)]
    /\ UNCHANGED <<runVars, exportVars, chatVars, parseVars, clock, enforceUnique, call, convVars>>

\* search_customer_by_contract: the SELECT on contacts runs and returns the
\* matching row or none, or throws; the tool returns. The found field of the
\* result is "true", "false", or "absent" when the result has none.
ToolSearchCustomer(matches, storeUp, message) ==
    /\ tool.pc \in {"idle", "done"}
    /\ tool.calls < NumToolCalls
    /\ message \in PgErrors
    /\ tool' = [IdleTool EXCEPT
                  !.pc = "done", !.name = "search_customer_by_contract",
                  !.calls = tool.calls + 1,
                  !.storeFailed = ~storeUp,
                  !.backend = "postgres",
                  !.result =
                     IF ~storeUp THEN toolFailure(<<message>>)
                     ELSE IF matches = 0
                     THEN [NoToolResult EXCEPT !.kind = "return", !.success = FALSE,
                                               !.found = "false"]
                     ELSE [NoToolResult EXCEPT !.kind = "return", !.success = TRUE,
                                               !.found = "true", !.items = 1]]
    /\ UNCHANGED <<runVars, exportVars, chatVars, parseVars, clock, ticketVars, convVars>>

\* ------------------------------------------------------------------------
\* Tools of the AquaHub agents
\* ------------------------------------------------------------------------
\* The tools that write to an external system.
AquaTools == {"crear_pedido", "cancelar_pedido", "reportar_incidente"}

\* What one attempt of fetchAquaHub does: the fetch throws (network error,
\* timeout), the response has a non-OK status, its body is not JSON, or it is
\* the JSON of the created or changed object.
AquaOutcomes == {"throw", "status", "badjson", "ok"}

\* What the single INSERT of a configured database does: it succeeds, it
\* throws, or (Supabase client) it resolves with an error object.
DbOutcomes == {"ok", "throw", "error"}

aquaErrorPrefix(name) ==
    CASE name = "crear_pedido" -> "No se pudo crear el pedido: "
      [] name = "cancelar_pedido" -> "No se pudo cancelar el pedido: "
      [] OTHER -> "No se pudo reportar el incidente: "

\* The store reportar_incidente writes to: Postgres when configured, else
\* Supabase when configured, else the AquaHub API.
incidentBackend(env) ==
    IF env.db THEN "postgres" ELSE IF env.supabase THEN "supabase" ELSE "api"

aquaSuccess == [NoToolResult EXCEPT !.kind = "return", !.success = TRUE, !.items = 1]

\* A side-effecting AquaHub tool's execute is entered. reportar_incidente
\* with a configured database does its one INSERT and returns; every other
\* case calls fetchAquaHub with method POST.
AquaInvoke(name, env, dbOutcome) ==
    /\ tool.pc \in {"idle", "done"}
    /\ tool.calls < NumToolCalls
    /\ name \in AquaTools
    /\ dbOutcome = "error" => name = "reportar_incidente" /\ incidentBackend(env) = "supabase"
    /\ LET backend == IF name = "reportar_incidente" THEN incidentBackend(env) ELSE "api"
           entered == [IdleTool EXCEPT !.name = name, !.backend = backend,
                                       !.env = env, !.calls = tool.calls + 1]
       IN  tool' =
             IF backend = "api"
             THEN [entered EXCEPT !.pc = "aquafetch", !.attempt = 1]
             ELSE [entered EXCEPT
                     !.pc = "done", !.sent = 1,
                     !.storeFailed = dbOutcome # "ok",
                     !.result =
                        IF dbOutcome = "ok"
                        THEN aquaSuccess
                        ELSE toolFailure(<<IF backend = "supabase" /\ dbOutcome = "throw"
                                           THEN aquaErrorPrefix(name)
                                           ELSE "No se pudo guardar el reporte: ",
                                           FETCH_ERROR>>)]
    /\ UNCHANGED <<runVars, exportVars, chatVars, parseVars, clock, ticketVars, convVars>>

\* One iteration of the loop of fetchAquaHub: the request is sent; anything
\* but a JSON response with an OK status is retried after delayMs * attempt
\* until the last attempt, whose failure is thrown to the tool's catch.
AquaAttempt(outcome) ==
    /\ tool.pc = "aquafetch"
    /\ outcome \in AquaOutcomes
    /\ LET attempt == tool.attempt
           sentNow == [tool EXCEPT !.sent = @ + 1, !.outcomes = Append(@, outcome)]
       IN  tool' =
             IF outcome = "ok"
             THEN [sentNow EXCEPT !.pc = "done", !.result = aquaSuccess]
             ELSE IF attempt < MAX_RETRIES
             THEN [sentNow EXCEPT !.attempt = attempt + 1,
                                  !.waits = Append(@, retryDelay(attempt))]
             ELSE [sentNow EXCEPT
                     !.pc = "done", !.storeFailed = TRUE,
                     !.result = toolFailure(<<aquaErrorPrefix(tool.name), FETCH_ERROR>>)]
    /\ UNCHANGED <<runVars, exportVars, chatVars, parseVars, clock, ticketVars, convVars>>

\* ------------------------------------------------------------------------
\* Server: what the endpoints do with the result of runWorkflow
\* ------------------------------------------------------------------------
CHAT_FALLBACK_TEXT == <<"Lo siento, no pude procesar tu mensaje.">>

\* handleChat after runWorkflow returned: the response field of the JSON body.
chatResponseText(result) ==
    IF result.output_text # <<>> THEN result.output_text ELSE CHAT_FALLBACK_TEXT

\* POST /webhook/evolution after runWorkflow returned: the texts sent to the
\* user through sendWhatsAppMessage.
whatsAppTexts(result) ==
    IF result.output_text # <<>> THEN <<result.output_text>> ELSE <<>>

\* ------------------------------------------------------------------------
\* Server: POST /api/chat
\* ------------------------------------------------------------------------
MAX_MESSAGE_LENGTH == 10000

PHOTO_TEXT_LENGTH == 27

\* JSON values a message, or the first element of a message array, can be:
\* nothing, a number, and strings of several lengths.
ElemKinds == {"undefined", "number", "empty", "text", "max", "long"}

valueOf(kind) ==
    CASE kind = "undefined" -> [type |-> "undefined", len |-> 0]
      [] kind = "number" -> [type |-> "number", len |-> 0]
      [] kind = "empty" -> [type |-> "string", len |-> 0]
      [] kind = "text" -> [type |-> "string", len |-> 4]
      [] kind = "max" -> [type |-> "string", len |-> MAX_MESSAGE_LENGTH]
      [] OTHER -> [type |-> "string", len |-> MAX_MESSAGE_LENGTH + 1]

\* The message field of a request body: a value, an array, a string that is
\* the JSON of an array, or a string in brackets that is not JSON.
Messages ==
    {[shape |-> sh, elem |-> k] : sh \in {"value", "array", "jsonArray"}, k \in ElemKinds}
        \cup {[shape |-> "brackets", elem |-> "text"]}

\* Request bodies: the message, whether image_url is given, the
\* conversationId ("" when none is sent).
Bodies ==
    {[message |-> m, image_url |-> img, conversationId |-> id] :
        m \in Messages, img \in BOOLEAN, id \in {"", "a"}}

\* !v is false
truthy(v) == v.type = "number" \/ (v.type = "string" /\ v.len > 0)

\* message[0] || ""
firstOrEmpty(kind) == IF truthy(valueOf(kind)) THEN valueOf(kind) ELSE valueOf("empty")

\* The message after the array and stringified-array handling.
sanitize(m) ==
    IF m.shape \in {"array", "jsonArray"} THEN firstOrEmpty(m.elem)
    ELSE IF m.shape = "brackets" THEN [type |-> "string", len |-> valueOf(m.elem).len + 2]
    ELSE valueOf(m.elem)

\* The message handleChat validates: the WaterHub server turns a non-string
\* into "" and an empty message with an image into a fixed text.
messageOf(v, body) ==
    LET m == sanitize(body.message)
        s == IF m.type # "string" THEN valueOf("empty") ELSE m
    IN  IF v = "cea" THEN m
        ELSE IF ~truthy(s) /\ body.image_url
             THEN [type |-> "string", len |-> PHOTO_TEXT_LENGTH]
             ELSE s

\* The error of the 400 response, "" when the request passes validation.
validationError(v, body) ==
    LET m == messageOf(v, body)
    IN  IF ~truthy(m) \/ m.type # "string"
        THEN IF v = "cea" THEN "Missing or invalid 'message' field"
             ELSE "Missing or invalid 'message' field (or image_url)"
        ELSE IF m.len > MAX_MESSAGE_LENGTH THEN "Message too long (max 10000 characters)"
        ELSE ""

\* The id crypto.randomUUID() gives runWorkflow for a request without one:
\* an id no conversation has.
GENERATED_ID == "b"

\* The id a later crypto.randomUUID() of handleChat gives: another new id.
RESPONSE_ID == "c"

NoBody == [message |-> [shape |-> "value", elem |-> "undefined"], image_url |-> FALSE,
           conversationId |-> ""]

\* The last request handled, its response, and the turn it started (0 when
\* it started none).
IdleChat ==
    [pc |-> "idle", requests |-> 0, body |-> NoBody, status |-> 0, error |-> "",
     response |-> <<>>, started |-> 0, conversationId |-> ""]

\* conversationId || crypto.randomUUID() in a response body
responseId(body) ==
    IF body.conversationId # "" THEN body.conversationId ELSE RESPONSE_ID

\* handleChat up to the call of runWorkflow: an invalid request is answered
\* with status 400; a valid one enters the workflow.
HandleChat(body) ==
    /\ body \in Bodies
    /\ chat.pc # "running"   \* the requests are handled one after the other
    /\ LET err == validationError(variant, body)
           id == IF body.conversationId # "" THEN body.conversationId ELSE GENERATED_ID
       IN  IF err # ""
           THEN /\ chat' = [pc |-> "responded",
                            requests |-> chat.requests + 1, body |-> body, status |-> 400,
                            error |-> err, response |-> <<>>, started |-> 0,
                            conversationId |-> responseId(body)]
                /\ chat.requests < MaxRequests
                /\ UNCHANGED <<convVars>>
           ELSE \E t \in Turns :
                  /\ body.conversationId = "" => conversationStore[GENERATED_ID] = NoEntry
                  /\ enterWorkflow(t, id)
                  /\ chat' = [pc |-> "running",
                              requests |-> chat.requests + 1, body |-> body, status |-> 0,
                              error |-> "", response |-> <<>>, started |-> t,
                              conversationId |-> ""]
                  /\ UNCHANGED <<variant, lastSweep>>
    /\ UNCHANGED <<runVars, exportVars, parseVars, toolVars, clock, ticketVars>>

\* handleChat after runWorkflow returned: the response is built and sent.
ChatRespond ==
    /\ chat.pc = "running"
    /\ turn[chat.started].pc = "done"
    /\ chat' = [chat EXCEPT !.pc = "responded", !.status = 200,
                            !.response = chatResponseText(turn[chat.started].out),
                            !.conversationId = responseId(chat.body)]
    /\ UNCHANGED <<runVars, exportVars, parseVars, toolVars, clock, ticketVars, convVars>>

\* No chat request was handled.
ChatQuiet == chat = IdleChat

\* ------------------------------------------------------------------------
\* Conversation store at start-up
\* ------------------------------------------------------------------------
\* Lengths of the history conversation "a" already holds at the origin; it
\* was last accessed one cleanup interval before the origin.
SeedHistoryLens == {19}

seedItem(i) ==
    item(0, i, "message", IF i % 2 = 1 THEN "user" ELSE "assistant", "", <<"antes">>)

seedEntry(n) ==
    [history |-> [i \in 1..n |-> seedItem(i)], lastAccess |-> 0 - SWEEP_INTERVAL_MS,
     classification |-> "informacion", contractNumber |-> "", alcaldia |-> ""]

\* No conversation, no turn.
ConvQuiet ==
    /\ variant = "cea"
    /\ heap = <<>>
    /\ appended = <<>>
    /\ conversationStore = [id \in ConvIds |-> NoEntry]
    /\ lastSweep = 0
    /\ turn = [t \in Turns |-> IdleTurn]

\* ------------------------------------------------------------------------
\* The upstream parsers
\* ------------------------------------------------------------------------
Parsers == {"deuda", "consumo", "contrato"}

FaultMarkers == {"faultstring", "error"}

\* An upstream payload: the literal markers <faultstring> and <error> it
\* contains, the text between the tags of each name (empty when the tag is
\* absent or holds only blanks), and the amounts of its <concepto> /
\* <consumo> blocks.
Xmls ==
    {[markers |-> m, faultText |-> ft, importeTotal |-> tot, titular |-> who, blocks |-> b] :
        m \in {{}, {"faultstring"}, {"error"}},
        ft \in {<<>>, <<"f", "a", "l", "l", "a">>},
        tot \in {<<>>, <<"1", "5", "0">>},
        who \in {<<>>, <<"A", "n", "a">>},
        b \in {<<>>, <<<<"1", "0">>>>,
               << <<"4", "0">>, <<"1", "0">>, <<"1", "0">>, <<"1", "0">> >>}}

\* The empty payload.
EmptyXml ==
    [markers |-> {}, faultText |-> <<>>, importeTotal |-> <<>>, titular |-> <<>>,
     blocks |-> <<>>]

\* parseXMLValue(xml, tag): the trimmed text of the first <tag>...</tag>; the
\* empty text stands for both null and "", which every caller treats alike.
parseXMLValue(xml, tag) ==
    IF tag \in FaultMarkers THEN (IF tag \in xml.markers THEN xml.faultText ELSE <<>>)
    ELSE IF tag = "importeTotal" THEN xml.importeTotal
    ELSE IF tag = "titular" THEN xml.titular
    ELSE <<>>

\* a || b on texts
orElse_left(a, b) == a

orElse(a, b) == IF a = <<>> THEN b ELSE a

\* parseFloat of the empty text
NaN == 0 - 1

parseFloat(s) == IF s = <<>> THEN NaN ELSE parseInt(s)

UNKNOWN_ERROR == <<"Error desconocido">>

\* xml.includes("<faultstring>") || xml.includes("<error>")
hasFault(xml) == xml.markers # {}

faultMsg_raw(xml) ==
    orElse(parseXMLValue(xml, "faultstring"), parseXMLValue(xml, "error"))

faultMsg(xml) ==
    orElse(orElse(parseXMLValue(xml, "faultstring"), parseXMLValue(xml, "error")),
           UNKNOWN_ERROR)

\* A parser's result; data and rawResponse are optional fields, held as a set
\* of at most one value.
parseFailure(error, raw) ==
    [success |-> FALSE, error |-> error, rawResponse |-> raw, data |-> {}]

parseSuccess(data) ==
    [success |-> TRUE, error |-> <<>>, rawResponse |-> {}, data |-> {data}]

RECURSIVE sumOf(_)
sumOf(ns) == IF Len(ns) = 0 THEN 0 ELSE ns[1] + sumOf(Tail(ns))

parseDeudaResponse(xml) ==
    IF hasFault(xml) THEN parseFailure(faultMsg(xml), {xml})
    ELSE parseSuccess(
           [totalDeuda |-> parseFloat(orElse(orElse(parseXMLValue(xml, "importeTotal"),
                                                    parseXMLValue(xml, "totalDeuda")),
                                             <<"0">>)),
            vencido |-> parseFloat(orElse(parseXMLValue(xml, "importeVencido"), <<"0">>)),
            porVencer |-> parseFloat(orElse(parseXMLValue(xml, "importePorVencer"), <<"0">>)),
            conceptos |-> [i \in 1..Len(xml.blocks) |->
                              [monto |-> parseFloat(orElse(xml.blocks[i], <<"0">>)),
                               estado |-> "por_vencer"]]])

\* recent > older * 1.1 and recent < older * 0.9, on the sums of three.
tendenciaOf(ms) ==
    IF Len(ms) < 3 THEN "estable"
    ELSE LET recent == sumOf(SubSeq(ms, 1, 3))
             older == sumOf(SubSeq(ms, Len(ms) - 2, Len(ms)))
         IN  IF 10 * recent > 11 * older THEN "aumentando"
             ELSE IF 10 * recent < 9 * older THEN "disminuyendo"
             ELSE "estable"

parseConsumoResponse(xml) ==
    IF hasFault(xml) THEN parseFailure(faultMsg(xml), {})
    ELSE LET ms == [i \in 1..Len(xml.blocks) |-> parseFloat(orElse(xml.blocks[i], <<"0">>))]
         IN  parseSuccess(
               [consumos |-> [i \in 1..Len(ms) |-> [consumoM3 |-> ms[i], tipoLectura |-> "real"]],
                promedioMensual |-> IF Len(ms) > 0 THEN sumOf(ms) \div Len(ms) ELSE 0,
                tendencia |-> tendenciaOf(ms)])

parseContratoResponse(xml) ==
    IF hasFault(xml) THEN parseFailure(faultMsg(xml), {})
    ELSE parseSuccess(
           [titular |-> orElse(parseXMLValue(xml, "nombreTitular"),
                               parseXMLValue(xml, "titular")),
            estado |-> orElse(parseXMLValue(xml, "estado"), <<"activo">>)])

parserResult(parser, xml) ==
    IF parser = "deuda" THEN parseDeudaResponse(xml)
    ELSE IF parser = "consumo" THEN parseConsumoResponse(xml)
    ELSE parseContratoResponse(xml)

NoParse == [success |-> FALSE, error |-> <<>>, rawResponse |-> {}, data |-> {}]

IdleParse == [pc |-> "idle", parser |-> "deuda", xml |-> EmptyXml, out |-> NoParse]

\* A response text reaches one of the parsers.
ParseBegin(parser, xml) ==
    /\ parse.pc = "idle"
    /\ parse' = [pc |-> "input", parser |-> parser, xml |-> xml, out |-> NoParse]
    /\ UNCHANGED <<runVars, exportVars, chatVars, clock, ticketVars, convVars, toolVars>>

\* The parser returns.
ParseReturn ==
    /\ parse.pc = "input"
    /\ parse' = [parse EXCEPT !.pc = "returned", !.out = parserResult(parse.parser, parse.xml)]
    /\ UNCHANGED <<runVars, exportVars, chatVars, clock, ticketVars, convVars, toolVars>>

\* No parser was applied.
ParseQuiet == parse = IdleParse

\* ------------------------------------------------------------------------
\* The exported generateTicketFolio
\* ------------------------------------------------------------------------
\* A caller outside the module (the test runner) calls generateTicketFolio.
FolioCall(ticketType) ==
    /\ ticketType \in TicketType
    /\ Len(folioCalls) < NumFolioCalls
    /\ folioCalls' = Append(folioCalls,
                            [type |-> ticketType, at |-> clock,
                             folio |-> generateTicketFolio(ticketType, clock)])
    /\ UNCHANGED <<runVars, chatVars, parseVars, toolVars, clock, ticketVars, convVars>>

\* generateTicketFolio was not called from outside.
ExportQuiet == folioCalls = <<>>

\* ------------------------------------------------------------------------
\* runAgentWithApproval on its own
\* ------------------------------------------------------------------------
MaxRunItems == 3

\* The raw items a run can produce: an assistant message with text, an
\* assistant message whose content holds no text, the call of a function
\* tool and its result, the call of a hosted tool.
RunItemKinds == {"text", "notext", "function_call", "function_call_result", "hosted_tool_call"}

runItem(kind, i) ==
    CASE kind = "text" -> item(1, i, "message", "assistant", "", <<"texto", NumStr(i)[1]>>)
      [] kind = "notext" -> item(1, i, "message", "assistant", "", <<>>)
      [] kind = "function_call" -> item(1, i, "function_call", "", "get_deuda", <<>>)
      [] kind = "function_call_result" ->
            item(1, i, "function_call_result", "", "get_deuda", <<"150">>)
      [] OTHER -> item(1, i, "hosted_tool_call", "", "web_search", <<>>)

\* Results of runner.run: a final output or none, and up to MaxRunItems items.
RunResults ==
    {[throws |-> FALSE, finalOutput |-> fo,
      newItems |-> [i \in 1..n |-> runItem(ks[i], i)]] :
        fo \in {<<>>, <<"final">>},
        n \in 0..MaxRunItems,
        ks \in [1..MaxRunItems -> RunItemKinds]}

NoRun == [throws |-> FALSE, finalOutput |-> <<>>, newItems |-> <<>>]

NoRunOutput == [output |-> <<>>, newItems |-> <<>>, toolsUsed |-> <<>>]

IdleRun == [pc |-> "idle", result |-> NoRun, out |-> NoRunOutput]

\* runner.run(agent, history) resolves.
RunResolves(result) ==
    /\ agentRun.pc = "idle"
    /\ agentRun' = [pc |-> "resolved", result |-> result, out |-> NoRunOutput]
    /\ UNCHANGED <<exportVars, chatVars, parseVars, toolVars, clock, ticketVars, convVars>>

\* runAgentWithApproval returns.
RunReturns ==
    /\ agentRun.pc = "resolved"
    /\ agentRun' = [agentRun EXCEPT !.pc = "returned",
                                    !.out = runAgentWithApproval(agentRun.result)]
    /\ UNCHANGED <<exportVars, chatVars, parseVars, toolVars, clock, ticketVars, convVars>>

\* runAgentWithApproval was not called on its own.
RunQuiet == agentRun = IdleRun

\* No tool was invoked.
ToolQuiet == tool = IdleTool

\* ------------------------------------------------------------------------
\* Specifications
\* ------------------------------------------------------------------------
InitTickets ==
    /\ clock = 0
    /\ tickets \in SeedStores
    /\ enforceUnique \in BOOLEAN
    /\ call = [p \in Callers |-> IdleCall]
    /\ ConvQuiet
    /\ ToolQuiet
    /\ ParseQuiet
    /\ ChatQuiet
    /\ ExportQuiet
    /\ RunQuiet

NextTickets ==
    \/ \E p \in Callers, inp \in TicketInputs : CallBegin(p, inp)
    \/ \E p \in Callers, queryOk \in BOOLEAN : CallLookup(p, queryOk)
    \/ \E p \in Callers, storeUp \in BOOLEAN : CallInsert(p, storeUp)
    \/ \E t \in Instants : Tick(t)

SpecTickets == InitTickets /\ [][NextTickets]_vars

\* The workflow: turns on the conversation store, with the cleanup interval.
InitTurns ==
    /\ clock = 0
    /\ variant \in {"cea", "waterhub"}
    /\ IF variant = "cea"   \* only the CEA workflow touches the tickets table
       THEN tickets \in SeedStores /\ enforceUnique \in BOOLEAN
       ELSE tickets = OtherRows /\ enforceUnique = TRUE
    /\ call = [p \in Callers |-> IdleCall]
    /\ lastSweep = 0
    /\ turn = [t \in Turns |-> IdleTurn]
    /\ ToolQuiet
    /\ ParseQuiet
    /\ ChatQuiet
    /\ ExportQuiet
    /\ RunQuiet
    /\ \/ /\ heap = <<>>
          /\ appended = <<>>
          /\ conversationStore = [id \in ConvIds |-> NoEntry]
       \/ \E n \in SeedHistoryLens :
             /\ heap = <<seedEntry(n)>>
             /\ appended = <<seedEntry(n).history>>
             /\ conversationStore = [id \in ConvIds |-> IF id = "a" THEN 1 ELSE NoEntry]

NextTurns ==
    \/ \E t \in Turns, id \in ConvIds : TurnStart(t, id)
    \/ \E t \in Turns, cr \in CommonClassifierResults(variant) : TurnClassified(t, cr)
    \/ \E t \in Turns, queryOk \in BOOLEAN, storeUp \in BOOLEAN : TurnTicket(t, queryOk, storeUp)
    \/ \E t \in Turns : \E pr \in PersonaResults(t) : TurnPersona(t, pr)
    \/ Sweep
    \/ \E t \in ConvInstants : TickConv(t)

SpecTurns == InitTurns /\ [][NextTurns]_vars

\* The workflow with every extraction the classifier can make, the short
\* outcomes of the persona run and a tickets store that is always reachable.
InitSlots ==
    /\ clock = 0
    /\ variant \in {"cea", "waterhub"}
    /\ tickets = OtherRows
    /\ enforceUnique = TRUE
    /\ call = [p \in Callers |-> IdleCall]
    /\ lastSweep = 0
    /\ turn = [t \in Turns |-> IdleTurn]
    /\ ToolQuiet
    /\ ParseQuiet
    /\ ChatQuiet
    /\ ExportQuiet
    /\ RunQuiet
    /\ \/ /\ heap = <<>>
          /\ appended = <<>>
          /\ conversationStore = [id \in ConvIds |-> NoEntry]
       \/ \E n \in SeedHistoryLens :
             /\ heap = <<seedEntry(n)>>
             /\ appended = <<seedEntry(n).history>>
             /\ conversationStore = [id \in ConvIds |-> IF id = "a" THEN 1 ELSE NoEntry]

NextSlots ==
    \/ \E t \in Turns, id \in ConvIds : TurnStart(t, id)
    \/ \E t \in Turns, cr \in ClassifierResults(variant) : TurnClassified(t, cr)
    \/ \E t \in Turns : TurnTicket(t, TRUE, TRUE)
    \/ \E t \in Turns : \E pr \in {r \in PersonaResults(t) : Len(r.newItems) <= 1} :
          TurnPersona(t, pr)
    \/ Sweep
    \/ \E t \in ConvInstants : TickConv(t)

SpecSlots == InitSlots /\ [][NextSlots]_vars

\* The tools, invoked one after the other against the tickets table.
InitTools ==
    /\ clock = 0
    /\ tickets \in SeedStores
    /\ enforceUnique \in BOOLEAN
    /\ call = [p \in Callers |-> IdleCall]
    /\ ConvQuiet
    /\ ToolQuiet
    /\ ParseQuiet
    /\ ChatQuiet
    /\ ExportQuiet
    /\ RunQuiet

NextTools ==
    \/ \E name \in ReadTools : ToolInvoke(name)
    \/ \E outcome \in AttemptOutcomes : FetchAttempt(outcome)
    \/ \E input \in TicketInputs, queryOk \in BOOLEAN, storeUp \in BOOLEAN :
          ToolCreateTicket(input, queryOk, storeUp)
    \/ \E input \in UpdateInputs, storeUp \in BOOLEAN, message \in PgErrors :
          ToolUpdateTicket(input, storeUp, message)
    \/ \E matches \in {0, 1}, storeUp \in BOOLEAN, message \in PgErrors :
          ToolSearchCustomer(matches, storeUp, message)

SpecTools == InitTools /\ [][NextTools]_vars

\* The side-effecting tools of the AquaHub agents.
NextAqua ==
    \/ \E name \in AquaTools, env \in Envs, dbOutcome \in DbOutcomes :
          AquaInvoke(name, env, dbOutcome)
    \/ \E outcome \in AquaOutcomes : AquaAttempt(outcome)

SpecAqua == InitTools /\ [][NextAqua]_vars

\* The upstream parsers, each applied to every payload.
NextParsers ==
    \/ \E parser \in Parsers, xml \in Xmls : ParseBegin(parser, xml)
    \/ ParseReturn

SpecParsers == InitTools /\ [][NextParsers]_vars

\* The chat endpoint in front of the workflow.
InitChat ==
    /\ clock = 0
    /\ variant \in {"cea", "waterhub"}
    /\ tickets = OtherRows
    /\ enforceUnique = TRUE
    /\ call = [p \in Callers |-> IdleCall]
    /\ lastSweep = 0
    /\ turn = [t \in Turns |-> IdleTurn]
    /\ heap = <<>>
    /\ appended = <<>>
    /\ conversationStore = [id \in ConvIds |-> NoEntry]
    /\ ToolQuiet
    /\ ParseQuiet
    /\ ChatQuiet
    /\ ExportQuiet
    /\ RunQuiet

NextChat ==
    \/ \E body \in Bodies : HandleChat(body)
    \/ ChatRespond
    \/ \E t \in Turns, cr \in CommonClassifierResults(variant) : TurnClassified(t, cr)
    \/ \E t \in Turns : TurnTicket(t, TRUE, TRUE)
    \/ \E t \in Turns : \E pr \in {r \in PersonaResults(t) : Len(r.newItems) <= 1} :
          TurnPersona(t, pr)

SpecChat == InitChat /\ [][NextChat]_vars

\* The exported folio generator, called at the instants of the model.
NextExport ==
    \/ \E ticketType \in TicketType : FolioCall(ticketType)
    \/ \E t \in Instants : Tick(t)

SpecExport == InitTools /\ [][NextExport]_vars

\* runAgentWithApproval applied to every run result.
NextRuns ==
    \/ \E result \in RunResults : RunResolves(result)
    \/ RunReturns

SpecRuns == InitTools /\ [][NextRuns]_vars

\* The two retry loops; an attempt always ends, by its response, its error
\* or its 30-second timeout.
NextFetch ==
    \/ \E name \in ReadTools : ToolInvoke(name)
    \/ \E outcome \in AttemptOutcomes : FetchAttempt(outcome)
    \/ \E name \in AquaTools, env \in Envs, dbOutcome \in DbOutcomes :
          AquaInvoke(name, env, dbOutcome)
    \/ \E outcome \in AquaOutcomes : AquaAttempt(outcome)

SpecFetch ==
    /\ InitTools
    /\ [][NextFetch]_vars
    /\ WF_vars(\E outcome \in AttemptOutcomes : FetchAttempt(outcome))
    /\ WF_vars(\E outcome \in AquaOutcomes : AquaAttempt(outcome))

\* ------------------------------------------------------------------------
\* Properties of ticket creation
\* ------------------------------------------------------------------------
Done(p) == call[p].pc = "done"

\* ^[A-Z]{3}-\d{8}-\d{4}$
FolioFormat(f) ==
    /\ Len(f) = 17
    /\ \A i \in 1..3 : f[i] \in UpperCase
    /\ f[4] = "-"
    /\ \A i \in 5..12 : f[i] \in DigitSet
    /\ f[13] = "-"
    /\ \A i \in 14..17 : f[i] \in DigitSet

\* The number after the folio's last hyphen.
suffixNumber(f) == parseInt(SubSeq(f, 14, Len(f)))

\* Same category and same business day.
SameCategoryAndDay(p, q) ==
    /\ call[p].type = call[q].type
    /\ dateStr(getMexicoDate(call[p].start)) = dateStr(getMexicoDate(call[q].start))

\* Neither query of the call found the store unreachable.
NoOutage(p) == call[p].lookupOk /\ call[p].insert # "unreachable"

\* The folio the call returned was built from a timestamp.
ViaFallback(p) == ~call[p].lookupOk \/ call[p].insert # "ok"

\* C1: against a store that enforces folio uniqueness, concurrent creations
\* for the same category and day return pairwise distinct folios (stated here
\* for calls that met no store outage), and the store never holds two tickets
\* with the same folio.
C1_DistinctFoliosUnderRace ==
    enforceUnique =>
        /\ \A p, q \in Callers :
              (p # q /\ Done(p) /\ Done(q) /\ SameCategoryAndDay(p, q)
                     /\ NoOutage(p) /\ NoOutage(q))
                  => call[p].result.folio # call[q].result.folio
        /\ \A i, j \in 1..Len(tickets) :
              i # j => tickets[i].folio # tickets[j].folio

\* C2: every folio returned by ticket creation matches ^[A-Z]{3}-\d{8}-\d{4}$.
C2_ReturnedFolioFormat ==
    \A p \in Callers : Done(p) => FolioFormat(call[p].result.folio)

\* C3: of two creations for the same category and day that run one after the
\* other with no store failure, the later returns the strictly greater
\* numeric suffix.
C3_LaterFolioGreater ==
    \A p, q \in Callers :
        (Done(p) /\ Done(q) /\ p \in call[q].after /\ SameCategoryAndDay(p, q)
                 /\ NoOutage(p) /\ NoOutage(q))
            => suffixNumber(call[q].result.folio) > suffixNumber(call[p].result.folio)

C5_FallbackFoliosUnique ==
    \A q \in Callers :
        (Done(q) /\ ViaFallback(q))
            => /\ ~call[q].clash
               /\ \A p \in Callers :
                     (p # q /\ Done(p))
                         => call[p].result.folio # call[q].result.folio

\* ------------------------------------------------------------------------
\* Properties of the workflow and the conversation store
\* ------------------------------------------------------------------------
TurnDone(t) == turn[t].pc = "done"

\* s occurs in text as a contiguous run of elements
contains(text, s) ==
    \E i \in 1..(Len(text) - Len(s) + 1) : SubSeq(text, i, i + Len(s) - 1) = s

\* C6: in the CEA workflow a turn classified hablar_asesor runs no persona,
\* calls ticket creation exactly once with urgent priority, and returns the
\* canned acknowledgement containing that ticket's folio, which matches the
\* folio format and is not the placeholder; toolsUsed contains create_ticket.
C6_AdvisorShortCircuit ==
    \A t \in Turns :
        (variant = "cea" /\ TurnDone(t) /\ turn[t].classification = "hablar_asesor")
            => /\ turn[t].personaRuns = 0
               /\ turn[t].ticketCalls = 1
               /\ \A i \in 1..Len(tickets) :
                     tickets[i].folio = turn[t].ticket.folio
                         => tickets[i].priority = PRIORITY_MAP("urgente")
               /\ turn[t].out.output_text = advisorText(turn[t].ticket.folio)
               /\ contains(turn[t].out.output_text, turn[t].ticket.folio)
               /\ turn[t].ticket.folio # PENDING
               /\ FolioFormat(turn[t].ticket.folio)
               /\ \E i \in 1..Len(turn[t].out.toolsUsed) :
                     turn[t].out.toolsUsed[i] = "create_ticket"

\* C7: the stored history of every conversation never exceeds the cap and is
\* the most recent items of everything appended to it, in the original order.
C7_HistoryBounded ==
    \A e \in 1..Len(heap) :
        /\ Len(heap[e].history) <= HISTORY_CAP
        /\ heap[e].history = lastItems(appended[e], HISTORY_CAP)

\* A turn has finished on a conversation to which more than the cap was
\* appended, and items were dropped.
C7_Witness ==
    \E t \in Turns :
        /\ TurnDone(t)
        /\ Len(turn[t].pushed) > 0
        /\ Len(appended[turn[t].entry]) > HISTORY_CAP
        /\ Len(heap[turn[t].entry].history) = HISTORY_CAP

\* C8: a run of the cleanup removes exactly the conversations whose
\* lastAccess is more than the TTL old and leaves the others in the store
\* with their state unchanged; the getConversation of a starting turn sets
\* lastAccess of the conversation it returns to the current time.
C8_SweepAndTouch ==
    [][ /\ (lastSweep' # lastSweep) =>
              \A id \in ConvIds :
                  IF conversationStore[id] = NoEntry
                  THEN conversationStore'[id] = NoEntry
                  ELSE IF clock - heap[conversationStore[id]].lastAccess > TTL_MS
                       THEN conversationStore'[id] = NoEntry
                       ELSE /\ conversationStore'[id] = conversationStore[id]
                            /\ heap'[conversationStore[id]] = heap[conversationStore[id]]
        /\ \A t \in Turns :
              (turn[t].pc = "idle" /\ turn'[t].pc # "idle") =>
                  /\ conversationStore'[turn'[t].conv] = turn'[t].entry
                  /\ heap'[turn'[t].entry].lastAccess = clock
      ]_vars

\* The cleanup has run: it removed the conversation last accessed before the
\* origin and kept one accessed exactly one TTL before the run.
C8_Witness ==
    /\ lastSweep = TTL_MS
    /\ \E id \in ConvIds :
          /\ conversationStore[id] = NoEntry
          /\ Len(heap) >= 1 /\ heap[1].lastAccess < 0
    /\ \E id \in ConvIds :
          /\ conversationStore[id] # NoEntry
          /\ heap[conversationStore[id]].lastAccess = 0

\* ------------------------------------------------------------------------
\* Properties of the tools
\* ------------------------------------------------------------------------
ToolDone == tool.pc = "done"

\* The attempt threw or its response had a non-OK status.
attemptFailed(outcome) == outcome.throws \/ ~outcome.ok

\* The tool returned {success: false, error: <non-empty string>}.
TaggedFailure(result) ==
    /\ result.kind = "return"
    /\ ~result.success
    /\ ~emptyText(result.error)

\* C9: a tool whose network call or backing store failed returns
\* {success: false, error: <non-empty string>} and does not raise. For a read
\* tool the call failed when its last attempt did; for create_ticket and
\* update_ticket when a query found the store unreachable.
C9_ToolFailureIsTagged ==
    (/\ ToolDone
     /\ IF tool.name \in ReadTools
        THEN attemptFailed(tool.outcomes[Len(tool.outcomes)])
        ELSE tool.storeFailed)
        => TaggedFailure(tool.result)

\* C10: a read tool all of whose bounded attempts failed (threw, or came back
\* with a non-OK status) returns {success: false, error}.
C10_ExhaustedRetriesFail ==
    (/\ ToolDone
     /\ tool.name \in ReadTools
     /\ Len(tool.outcomes) = MAX_RETRIES
     /\ \A i \in 1..Len(tool.outcomes) : attemptFailed(tool.outcomes[i]))
        => TaggedFailure(tool.result)

\* C11: an invocation of a side-effecting tool sends at most one mutating
\* request to the external system, whatever the outcome of that request.
C11_AtMostOneMutation ==
    tool.name \in AquaTools \cup {"create_ticket", "update_ticket"} => tool.sent <= 1

\* C12: a turn whose classifier produced no output ends at once with the
\* fixed error response: no persona and no ticket creation ran, the result
\* carries an error and no classification, and the conversation entry
\* (history, classification, slots) is left as it was.
C12_ClassificationFailure ==
    [][ \A t \in Turns :
          (turn[t].pc = "classify" /\ turn'[t].pc = "done") =>
              /\ turn'[t].personaRuns = 0
              /\ turn'[t].ticketCalls = 0
              /\ turn'[t].out.error # ""
              /\ turn'[t].out.classification = ""
              /\ turn'[t].out.output_text \in {ERROR_TEXT, WATERHUB_ERROR_TEXT}
              /\ tickets' = tickets
              /\ heap'[turn[t].entry] = heap[turn[t].entry]
      ]_vars

\* The slot of a conversation entry: the contract number in the CEA module,
\* the locality in the WaterHub module.
slot(entry) == IF variant = "cea" THEN entry.contractNumber ELSE entry.alcaldia

\* The step is the classification of turn t succeeding.
Classifies(t) == turn[t].pc = "classify" /\ turn'[t].pc \in {"ticket", "persona"}

\* C13: the slot of a conversation changes only when a turn on it extracts a
\* non-empty value, and then it holds that value; a turn that extracts
\* nothing, and every other step, leaves the stored slot unchanged.
C13_StickySlot ==
    [][ /\ \A t \in Turns :
              Classifies(t) =>
                  slot(heap'[turn[t].entry]) =
                      IF turn'[t].extracted # "" THEN turn'[t].extracted
                      ELSE slot(heap[turn[t].entry])
        /\ \A e \in 1..Len(heap) :
              slot(heap'[e]) # slot(heap[e]) =>
                  \E t \in Turns : Classifies(t) /\ turn[t].entry = e
        /\ \A id \in ConvIds :
              (conversationStore[id] # NoEntry /\ lastSweep' = lastSweep)
                  => conversationStore'[id] = conversationStore[id]
      ]_vars

\* Two turns on the same conversation have finished, one extracted a value
\* and the other extracted nothing: the value is held.
C13_Witness ==
    \E t, u \in Turns :
        /\ t # u /\ turn[t].entry = turn[u].entry
        /\ turn[t].pc = "done" /\ turn[u].pc = "done"
        /\ turn[t].extracted = "c1" /\ turn[u].extracted = ""
        /\ slot(heap[turn[t].entry]) = "c1"

\* The step belongs to turn t.
StepOf(t) == turn'[t] # turn[t]

Finishes(t) == turn[t].pc \in {"ticket", "persona"} /\ turn'[t].pc = "done"

\* The history turn t read when it started, without its own user message.
snapshotOf(t) == SubSeq(turn[t].workingHistory, 1, Len(turn[t].workingHistory) - 1)

\* C15 as claimed: the store is last-write-wins, a finishing turn stores the
\* history it read at its start followed by its own items.
C15_LastWriteWins ==
    [][ \A t \in Turns :
          (Finishes(t) /\ Len(turn'[t].pushed) > 0) =>
              heap'[turn[t].entry].history =
                  limitHistory(snapshotOf(t) \o turn'[t].pushed)
      ]_vars

\* C15 as amended: a finishing turn appends its items to the history as it
\* is at that moment, so of two concurrent turns on one conversation the
\* stored history holds the items of both, in finishing order, up to the cap.
C15_BothTurnsKept ==
    [][ \A t \in Turns :
          (Finishes(t) /\ Len(turn'[t].pushed) > 0) =>
              LET e == turn[t].entry
                  before == heap[e].history
                  after == heap'[e].history
                  kept == Len(after) - Len(turn'[t].pushed)
              IN  /\ kept >= 0
                  /\ SubSeq(after, kept + 1, Len(after)) = turn'[t].pushed
                  /\ SubSeq(after, 1, kept) = lastItems(before, kept)
                  /\ Len(before) + Len(turn'[t].pushed) <= HISTORY_CAP => kept = Len(before)
      ]_vars

\* Two turns that read the same history of one conversation have both
\* finished, and the stored history ends with the items of both.
C15_Witness ==
    \E t, u \in Turns :
        /\ t # u /\ TurnDone(t) /\ TurnDone(u)
        /\ turn[t].entry = turn[u].entry
        /\ Len(turn[t].workingHistory) = Len(turn[u].workingHistory)
        /\ Len(turn[t].pushed) > 1 /\ Len(turn[u].pushed) > 1
        /\ LET h == heap[turn[t].entry].history
               n == Len(turn[t].pushed) + Len(turn[u].pushed)
           IN  /\ Len(h) >= n
               /\ SubSeq(h, Len(h) - n + 1, Len(h)) = turn[t].pushed \o turn[u].pushed

\* C16: every turn ends with a non-empty reply to the user on both channels
\* (the chat response body, one WhatsApp message), and the reply is never
\* the raw error message.
C16_AlwaysReplies ==
    \A t \in Turns :
        TurnDone(t) =>
            /\ chatResponseText(turn[t].out) # <<>>
            /\ chatResponseText(turn[t].out) # <<turn[t].out.error>>
            /\ Len(whatsAppTexts(turn[t].out)) = 1
            /\ \A i \in 1..Len(whatsAppTexts(turn[t].out)) :
                  /\ whatsAppTexts(turn[t].out)[i] # <<>>
                  /\ whatsAppTexts(turn[t].out)[i] # <<turn[t].out.error>>

statusRank(st) ==
    CASE st = "open" -> 0
      [] st = "in_progress" -> 1
      [] st \in {"waiting_client", "waiting_internal", "escalated"} -> 2
      [] st = "resolved" -> 3
      [] OTHER -> 4

\* A move the lifecycle allows: none, forward, or to cancelled from a
\* status that is not terminal.
lifecycleMove(from, to) ==
    \/ to = from
    \/ /\ from \notin {"closed", "cancelled"}
       /\ \/ to = "cancelled"
          \/ (to # "cancelled" /\ statusRank(to) > statusRank(from))

\* C18: every new ticket starts as open, and the status of a stored ticket
\* only moves forward along the lifecycle, never out of closed or cancelled.
C18_StatusLifecycle ==
    [][ /\ \A i \in 1..Len(tickets') : i > Len(tickets) => tickets'[i].status = "open"
        /\ \A i \in 1..Len(tickets) :
              lifecycleMove(tickets[i].status, tickets'[i].status)
      ]_vars

\* The step is an update_ticket call whose query ran.
Updates == /\ tool'.calls = tool.calls + 1
           /\ tool'.name = "update_ticket"
           /\ ~tool'.storeFailed

\* C19: update_ticket changes, on the tickets with the given folio, exactly
\* the supplied fields among status, priority and notes, stamps the
\* resolution time exactly when the supplied status is resuelto, and leaves
\* every other ticket and every other column as they were.
C19_PartialUpdate ==
    [][ Updates =>
          /\ Len(tickets') = Len(tickets)
          /\ \A i \in 1..Len(tickets) :
                LET old == tickets[i]
                    new == tickets'[i]
                    a == tool'.args
                IN  IF old.folio # a.folio THEN new = old
                    ELSE /\ new.id = old.id /\ new.folio = old.folio
                         /\ new.ticket_type = old.ticket_type
                         /\ new.status =
                               IF a.status = "resuelto" THEN "resolved"
                               ELSE IF a.status = "abierto" THEN "open" ELSE old.status
                         /\ new.priority = IF a.priority = "alta" THEN "high" ELSE old.priority
                         /\ new.resolution_notes =
                               IF a.notes # "" THEN a.notes ELSE old.resolution_notes
                         /\ new.resolved_at =
                               IF a.status = "resuelto" THEN <<clock>> ELSE old.resolved_at
      ]_vars

\* A ticket resolved by one call was then given a priority by a call that
\* supplied no status: it is still resolved.
C19_Witness ==
    /\ tool.name = "update_ticket" /\ tool.calls = 2 /\ ~tool.storeFailed
    /\ tool.args.status = "" /\ tool.args.priority = "alta" /\ tool.args.notes = ""
    /\ \E i \in 1..Len(tickets) :
          /\ tickets[i].folio = tool.args.folio
          /\ tickets[i].status = "resolved"
          /\ tickets[i].resolved_at # <<>>
          /\ tickets[i].priority = "high"

\* C20: search_customer_by_contract for a contract that matches no customer
\* returns found: false without the marks of a failure (success is not
\* false, there is no error), which tells it from a failed store query.
C20_NotFoundIsNotFailure ==
    (/\ ToolDone
     /\ tool.name = "search_customer_by_contract"
     /\ ~tool.storeFailed
     /\ tool.result.found # "true")
        => /\ tool.result.kind = "return"
           /\ tool.result.found = "false"
           /\ tool.result.success
           /\ tool.result.error = <<>>

\* ------------------------------------------------------------------------
\* Properties of the upstream parsers
\* ------------------------------------------------------------------------
Parsed == parse.pc = "returned"

\* The payload holds no fault marker and none of the fields a parser reads.
NoExpectedField(xml) ==
    /\ xml.markers = {}
    /\ xml.importeTotal = <<>>
    /\ xml.titular = <<>>
    /\ xml.blocks = <<>>

\* C21: each upstream parser, given a payload with no fault marker and none
\* of the expected fields (the empty payload included), returns success: true
\* with every numeric field 0 and every list field empty.
C21_AbsentFieldsDefault ==
    (Parsed /\ NoExpectedField(parse.xml)) =>
        /\ parse.out.success
        /\ parse.out.data # {}
        /\ \A d \in parse.out.data :
              /\ parse.parser = "deuda" =>
                    /\ d.totalDeuda = 0 /\ d.vencido = 0 /\ d.porVencer = 0
                    /\ d.conceptos = <<>>
              /\ parse.parser = "consumo" =>
                    /\ d.consumos = <<>>
                    /\ d.promedioMensual = 0

\* The consumption parser returned for the empty payload.
C21_Witness ==
    /\ Parsed
    /\ parse.parser = "consumo"
    /\ parse.xml = EmptyXml
    /\ parse.out.success

\* C22: each upstream parser, given a payload that contains a fault marker,
\* returns success: false with a non-empty error message and no data,
\* whatever other fields the payload holds.
C22_FaultIsFailure ==
    (Parsed /\ parse.xml.markers # {}) =>
        /\ ~parse.out.success
        /\ parse.out.error # <<>>
        /\ ~emptyText(parse.out.error)
        /\ parse.out.data = {}

\* A payload with an <error> marker that holds no text, and with data
\* fields, was parsed by the debt parser.
C22_Witness ==
    /\ Parsed
    /\ parse.parser = "deuda"
    /\ parse.xml.markers = {"error"}
    /\ parse.xml.faultText = <<>>
    /\ parse.xml.importeTotal # <<>>
    /\ parse.xml.blocks # <<>>
    /\ ~parse.out.success

\* C23: every failure result of the debt, consumption and contract parsers
\* carries the raw upstream payload with the error message.
C23_FailureCarriesRaw ==
    (Parsed /\ ~parse.out.success) =>
        /\ parse.out.error # <<>>
        /\ parse.out.rawResponse = {parse.xml}

\* C24: reportar_incidente uses the first configured store in the order
\* Postgres, Supabase, AquaHub API; it returns without raising; and with no
\* backend configured at all the report is still accepted (the degraded
\* response without persistence) rather than failed.
C24_IncidentFallback ==
    (ToolDone /\ tool.name = "reportar_incidente") =>
        /\ tool.env.db => tool.backend = "postgres"
        /\ (~tool.env.db /\ tool.env.supabase) => tool.backend = "supabase"
        /\ (~tool.env.db /\ ~tool.env.supabase) => tool.backend = "api"
        /\ tool.result.kind = "return"
        /\ tool.env = NoEnv => tool.result.success

\* ------------------------------------------------------------------------
\* Properties of the chat endpoint
\* ------------------------------------------------------------------------
\* The step handles one chat request.
Handles == chat'.requests = chat.requests + 1

\* The message is, after the array handling, missing, empty, not a string,
\* or longer than the maximum.
InvalidMessage(body) ==
    LET m == sanitize(body.message)
    IN  \/ m.type # "string"
        \/ m.len = 0
        \/ m.len > MAX_MESSAGE_LENGTH

\* C25: a chat request whose message is missing, empty or not a string after
\* the array handling, or longer than 10000 characters, is answered with the
\* 400 error response and never enters the workflow: no turn starts and no
\* conversation entry, ticket or tool call results from it.
C25_InvalidRequestRejected ==
    [][ (Handles /\ InvalidMessage(chat'.body)) =>
            /\ chat'.status = 400
            /\ chat'.error # ""
            /\ chat'.response = <<>>
            /\ chat'.started = 0
            /\ UNCHANGED <<turn, heap, appended, conversationStore, tickets, tool>>
      ]_vars

\* ------------------------------------------------------------------------
\* Properties of the life of a conversation entry
\* ------------------------------------------------------------------------
\* C26: a conversation entry comes into existence only when a turn starts
\* for an id the store does not hold, with empty history and no
\* classification or slot; it leaves the store only in a run of the cleanup
\* interval that finds it expired; and an id's entry is never exchanged for
\* another while it is stored, so a message after the removal starts from
\* the empty state.
C26_EntryLifecycle ==
    [][ \A id \in ConvIds :
          LET old == conversationStore[id]
              new == conversationStore'[id]
          IN  /\ (old = NoEntry /\ new # NoEntry) =>
                    /\ \E t \in Turns :
                          /\ turn[t].pc = "idle" /\ turn'[t].pc = "classify"
                          /\ turn'[t].conv = id /\ turn'[t].entry = new
                    /\ new = Len(heap) + 1
                    /\ heap'[new].history = <<>>
                    /\ heap'[new].classification = ""
                    /\ heap'[new].contractNumber = ""
                    /\ heap'[new].alcaldia = ""
              /\ (old # NoEntry /\ new = NoEntry) =>
                    /\ SweepDue /\ lastSweep' = clock
                    /\ expired(heap[old], clock)
              /\ (old # NoEntry /\ new # NoEntry) => new = old
      ]_vars

\* Conversation "a" held a history, was removed by the cleanup, and a turn
\* for "a" then completed on a second entry.
C26_Witness ==
    /\ Len(heap) >= 2
    /\ Len(heap[1].history) > 0
    /\ conversationStore["a"] = 2
    /\ \E t \in Turns : turn[t].pc = "done" /\ turn[t].conv = "a" /\ turn[t].entry = 2

\* ------------------------------------------------------------------------
\* Properties of the exported folio generator
\* ------------------------------------------------------------------------
\* ^CEA-[A-Z]{3}-\d{6}-\d{4}$
DocumentedFolioFormat(f) ==
    /\ Len(f) = 19
    /\ SubSeq(f, 1, 4) = <<"C", "E", "A", "-">>
    /\ \A i \in 5..7 : f[i] \in UpperCase
    /\ f[8] = "-"
    /\ \A i \in 9..14 : f[i] \in DigitSet
    /\ f[15] = "-"
    /\ \A i \in 16..19 : f[i] \in DigitSet

\* C27: every folio returned by the exported generateTicketFolio, for every
\* ticket type, has the documented format CEA-[TYPE]-[YYMMDD]-[NNNN].
C27_DocumentedFormat ==
    \A i \in 1..Len(folioCalls) : DocumentedFolioFormat(folioCalls[i].folio)

\* C28: of two consecutive calls of the exported generateTicketFolio for the
\* same ticket type, the second returns the folio that compares greater.
C28_ConsecutiveIncreasing ==
    \A i \in 1..(Len(folioCalls) - 1) :
        folioCalls[i].type = folioCalls[i + 1].type
            => StrLess(folioCalls[i].folio, folioCalls[i + 1].folio)

\* ------------------------------------------------------------------------
\* Properties of the sequential folio
\* ------------------------------------------------------------------------
\* The numbers after the prefix and its hyphen, of the stored folios that
\* have the prefix.
storedSeqs(rows, prefix) ==
    {parseInt(SubSeq(rows[i].folio, Len(prefix) + 2, Len(rows[i].folio))) :
        i \in {j \in 1..Len(rows) : startsWith(rows[j].folio, prefix \o <<"-">>)}}

greatest(S) == CHOOSE n \in S : \A m \in S : m <= n

\* C29: on the sequential path the sequence of the new folio is one more
\* than the greatest sequence among the stored folios of the same category
\* code and date, or 1 when there is none; rows of other categories and
\* dates do not count.
C29_SequenceIsMaxPlusOne ==
    [][ \A p \in Callers :
          (call[p].pc = "lookup" /\ call'[p].pc = "insert" /\ call'[p].lookupOk) =>
              LET prefix == folioPrefix(call[p].type, getMexicoDate(call[p].start))
                  seqs == storedSeqs(tickets, prefix)
                  new == call'[p].folio
              IN  /\ startsWith(new, prefix \o <<"-">>)
                  /\ parseInt(SubSeq(new, Len(prefix) + 2, Len(new))) =
                        IF seqs = {} THEN 1 ELSE greatest(seqs) + 1
      ]_vars

\* ------------------------------------------------------------------------
\* Properties of the order of the steps of a turn
\* ------------------------------------------------------------------------
\* The items of turn t among the items ever pushed to the conversations.
writtenBy(t) ==
    {<<e, i>> \in (1..Len(appended)) \X (1..(HISTORY_CAP + 4 * NumTurns)) :
        i <= Len(appended[e]) /\ appended[e][i].turn = t}

Succeeds(t) == turn[t].pc # "done" /\ turn'[t].pc = "done" /\ turn'[t].out.error = ""

\* What a successful turn adds after its user message: the items of the run,
\* or one assistant message with the output text when there are none.
producedBy(t) ==
    IF Len(turn'[t].newItems) > 0 THEN turn'[t].newItems
    ELSE IF turn'[t].out.output_text # <<>>
         THEN <<assistantMessage(t, turn'[t].out.output_text)>>
         ELSE <<>>

\* The history the turn read when it started.
historyAtStart(t) == SubSeq(turn[t].workingHistory, 1, Len(turn[t].workingHistory) - 1)

\* C31 as claimed: after a successful turn the stored history is, before
\* bounding, the history at the start of the turn, then the user message,
\* then the items the persona produced (or one assistant message with the
\* output text when there are none).
C31_StartHistoryExtended ==
    [][ \A t \in Turns :
          Succeeds(t) =>
              heap'[turn[t].entry].history =
                  limitHistory(historyAtStart(t) \o <<userMessage(t)>> \o producedBy(t))
      ]_vars

\* C31 amended: the user message and the items are appended to the history
\* the entry holds when the turn completes, which is the history at the
\* start of the turn when no other turn of the conversation completed in
\* between.
C31_CurrentHistoryExtended ==
    [][ \A t \in Turns :
          Succeeds(t) =>
              LET e == turn[t].entry
              IN  /\ heap'[e].history =
                        limitHistory(heap[e].history \o <<userMessage(t)>> \o producedBy(t))
                  /\ appended'[e] = appended[e] \o <<userMessage(t)>> \o producedBy(t)
                  /\ (\A u \in Turns \ {t} :
                         turn[u].entry = e => turn[u].pc # "done" \/ turn[t].pc = "idle")
                        => heap[e].history = historyAtStart(t)
      ]_vars

\* A persona run with a tool call completed on a conversation to which
\* another turn had added its items after this turn had started.
C31_Witness ==
    \E t \in Turns : \E u \in Turns \ {t} :
        /\ turn[t].pc = "done" /\ turn[t].out.error = "" /\ Len(turn[t].newItems) = 3
        /\ turn[u].pc = "done" /\ turn[u].entry = turn[t].entry
        /\ Len(turn[u].pushed) > 0
        /\ Len(appended[turn[t].entry]) >=
              Len(turn[t].workingHistory) - 1 + Len(turn[u].pushed) + 4

\* ------------------------------------------------------------------------
\* Properties of runAgentWithApproval
\* ------------------------------------------------------------------------
RunReturned == agentRun.pc = "returned"

\* The positions of the tool invocations among the items of a run.
toolCallsAt(items) ==
    {i \in 1..Len(items) : items[i].type \in {"function_call", "hosted_tool_call"}}

\* The positions of the assistant items with text.
assistantTextAt(items) ==
    {i \in 1..Len(items) : items[i].role = "assistant" /\ ~emptyText(items[i].text)
                           /\ items[i].text # <<>>}

\* C32: toolsUsed holds the name of every tool invocation recorded in the
\* run's items (function tools such as get_deuda included), in order, and
\* nothing else.
C32_ToolsUsedComplete ==
    RunReturned =>
        LET items == agentRun.result.newItems
            used == agentRun.out.toolsUsed
            calls == toolCallsAt(items)
        IN  /\ Len(used) = Cardinality(calls)
            /\ \A k \in 1..Len(used) :
                  \E i \in calls :
                     /\ Cardinality({j \in calls : j <= i}) = k
                     /\ used[k] = items[i].name

\* C33: when the run has no final output, the returned text is the text of
\* the last assistant item with non-empty text among the run's items, and
\* the empty text when there is none.
C33_LastAssistantText ==
    (RunReturned /\ agentRun.result.finalOutput = <<>>) =>
        LET items == agentRun.result.newItems
            at == assistantTextAt(items)
        IN  IF at = {} THEN agentRun.out.output = <<>>
            ELSE agentRun.out.output = items[CHOOSE i \in at : \A j \in at : j <= i].text

\* A run without final output returned the text of its first item: the
\* second is a tool call and the third an assistant message without text.
C33_Witness ==
    /\ RunReturned
    /\ agentRun.result.finalOutput = <<>>
    /\ Len(agentRun.result.newItems) = 3
    /\ agentRun.result.newItems[3].role = "assistant"
    /\ agentRun.result.newItems[3].text = <<>>
    /\ agentRun.result.newItems[2].type = "hosted_tool_call"
    /\ agentRun.out.output = agentRun.result.newItems[1].text
    /\ agentRun.out.output # <<>>

\* ------------------------------------------------------------------------
\* Properties of the retry loops
\* ------------------------------------------------------------------------
\* The invocation in progress goes through fetchWithRetry or fetchAquaHub.
Fetches == tool.name \in ReadTools \/ (tool.name \in AquaTools /\ tool.backend = "api")

InLoop == tool.pc \in {"fetch", "aquafetch"}

\* The i-th attempt of the invocation failed.
failedAttempt(i) ==
    IF tool.name \in ReadTools THEN attemptFailed(tool.outcomes[i])
    ELSE tool.outcomes[i] # "ok"

\* The last attempt threw (fetchAquaHub throws for every failure).
lastThrew ==
    IF tool.name \in ReadTools THEN tool.outcomes[Len(tool.outcomes)].throws
    ELSE tool.outcomes[Len(tool.outcomes)] # "ok"

RetryBounds ==
    Fetches =>
        /\ Len(tool.outcomes) <= MAX_RETRIES
        /\ \A k \in 1..Len(tool.waits) : tool.waits[k] = DELAY_MS * k
        /\ \A k \in 1..(Len(tool.waits) - 1) : tool.waits[k] < tool.waits[k + 1]
        /\ InLoop =>
              /\ tool.attempt = Len(tool.outcomes) + 1
              /\ tool.attempt <= MAX_RETRIES
              /\ Len(tool.waits) = Len(tool.outcomes)
              /\ \A i \in 1..Len(tool.outcomes) : failedAttempt(i)
        /\ ToolDone =>
              /\ Len(tool.outcomes) >= 1
              /\ Len(tool.waits) = Len(tool.outcomes) - 1
              /\ \A i \in 1..(Len(tool.outcomes) - 1) : failedAttempt(i)
              /\ failedAttempt(Len(tool.outcomes)) => Len(tool.outcomes) = MAX_RETRIES
              /\ lastThrew => /\ Len(tool.outcomes) = MAX_RETRIES
                              /\ TaggedFailure(tool.result)

\* C34: fetchWithRetry and fetchAquaHub make at most MAX_RETRIES attempts,
\* wait DELAY_MS * k after the k-th failed attempt (so the waits strictly
\* increase), do not wait after the last attempt, and always terminate: the
\* call returns a response, or throws after the last attempt.
C34_BoundedRetries == []RetryBounds /\ (InLoop ~> ToolDone)

\* In the second invocation fetchAquaHub failed twice, waited DELAY_MS and
\* then 2 * DELAY_MS, and returned on its last attempt.
C34_Witness ==
    /\ ToolDone /\ Fetches
    /\ tool.calls = 2
    /\ tool.name \in AquaTools
    /\ Len(tool.outcomes) = MAX_RETRIES
    /\ tool.waits = <<DELAY_MS, 2 * DELAY_MS>>
    /\ tool.outcomes[MAX_RETRIES] = "ok"

\* ------------------------------------------------------------------------
\* Properties of the warning of createTicketDirect
\* ------------------------------------------------------------------------
\* C35: the result of createTicketDirect carries a warning exactly when the
\* ticket was not persisted. Without a warning, a ticket with the returned
\* folio is in the store and ticketId is set; when the insert failed (the
\* store rejected it or was unreachable), the result has the warning and the
\* returned folio was not in the store when the call returned.
C35_WarningIffNotPersisted ==
    \A p \in Callers :
        Done(p) =>
            /\ (call[p].result.warning = "") <=> (call[p].insert = "ok")
            /\ call[p].result.warning = "" =>
                  /\ call[p].result.folio \in folios(tickets)
                  /\ call[p].result.ticketId # 0
            /\ call[p].insert # "ok" =>
                  /\ call[p].result.warning # ""
                  /\ ~call[p].clash

\* C36: the conversationId of a chat response is the key under which the
\* turn's history was stored, also when the request carried none and one was
\* generated, so a request sending it back continues the conversation.
C36_ResponseIdIsStoreKey ==
    chat.status = 200 =>
        /\ chat.conversationId \in ConvIds
        /\ chat.conversationId = turn[chat.started].conv
        /\ conversationStore[chat.conversationId] = turn[chat.started].entry

\* C37: in the CEA workflow a turn whose persona run throws after a
\* successful classification returns the fixed error response and leaves
\* the stored history as it was, while the classification and the slot
\* extracted in the turn stay on the conversation entry.
C37_PersonaFailureKeepsHistory ==
    [][ \A t \in Turns :
          (/\ variant = "cea"
           /\ turn[t].pc \in {"persona", "ticket"}
           /\ turn'[t].pc = "done"
           /\ turn'[t].out.error # "") =>
              LET e == turn[t].entry
              IN  /\ turn'[t].out.output_text = ERROR_TEXT
                  /\ turn'[t].out.classification = ""
                  /\ heap' = heap
                  /\ appended' = appended
                  /\ conversationStore' = conversationStore
                  /\ heap'[e].classification # ""
                  /\ turn[t].extracted # "" => heap'[e].contractNumber # ""
                  /\ (\A u \in Turns \ {t} : turn[u].pc = "idle" \/ turn[u].entry # e) =>
                        /\ heap'[e].classification = turn[t].classification
                        /\ turn[t].extracted # "" =>
                              heap'[e].contractNumber = turn[t].extracted
      ]_vars

\* A CEA turn on the conversation that held 19 items extracted a contract
\* number, its persona run threw, and it returned the error: the entry
\* still holds the 19 items, with the classification and the contract.
C37_Witness ==
    /\ variant = "cea"
    /\ \E t \in Turns :
          /\ turn[t].pc = "done" /\ turn[t].out.error = "persona"
          /\ turn[t].extracted = "c1"
          /\ turn[t].personaRuns = 1
          /\ Len(heap[turn[t].entry].history) = 19
          /\ heap[turn[t].entry].classification = turn[t].classification
          /\ heap[turn[t].entry].contractNumber = "c1"

\* ------------------------------------------------------------------------
\* The welcome reply of the WaterHub workflow
\* ------------------------------------------------------------------------
\* The step completes a WaterHub turn without an error.
WaterHubSucceeds(t) == variant = "waterhub" /\ Succeeds(t)

\* The stored history of the turn's conversation is empty as the persona
\* finishes.
FirstMessage(t) == Len(heap[turn[t].entry].history) = 0

\* The reply is the welcome message exactly on a first message and the
\* persona's output otherwise, and the persona has run once in the turn.
WelcomeReply(t) ==
    /\ turn'[t].out.output_text =
          (IF FirstMessage(t) THEN WELCOME_MESSAGE ELSE turn'[t].agentOutput)
    /\ turn'[t].personaRuns = turn[t].personaRuns + 1
    /\ turn'[t].out.toolsUsed = extractToolsUsed(turn'[t].newItems)

UpdateCalled == tool'.calls = tool.calls + 1 /\ tool'.name = "update_ticket"

\* No stored ticket carries the folio.
NoTicketWith(folio) == \A i \in 1..Len(tickets) : tickets[i].folio # folio

\* C39: update_ticket with a folio that matches no stored ticket changes
\* nothing in the store and still returns success: true with the
\* confirmation message; it returns success: false only when the store query
\* itself throws, and then with the message of the error.
C39_UnknownFolioSucceeds ==
    [][ UpdateCalled =>
          /\ (NoTicketWith(tool'.args.folio) /\ ~tool'.storeFailed) =>
                /\ tickets' = tickets
                /\ tool'.result.success
                /\ tool'.result.error = <<>>
                /\ tool'.result.folio = tool'.args.folio
                /\ tool'.result.message = updatedMessage(tool'.args.folio)
          /\ ~tool'.result.success <=> tool'.storeFailed
          /\ tool'.storeFailed =>
                /\ tickets' = tickets
                /\ tool'.result.message = <<>>
                /\ \E m \in PgErrors : tool'.result.error = <<m>>
      ]_vars

\* update_ticket was asked to resolve a ticket whose folio no stored ticket
\* carries; the query ran and the tool returned success with the
\* confirmation message.
C39_Witness ==
    /\ tool.pc = "done" /\ tool.name = "update_ticket" /\ ~tool.storeFailed
    /\ tool.args.folio = <<"X">> /\ tool.args.status = "resuelto"
    /\ NoTicketWith(<<"X">>)
    /\ tool.result.success
    /\ tool.result.message = updatedMessage(<<"X">>)
    /\ \A i \in 1..Len(tickets) : tickets[i].status # "resolved"

====
